---- MODULE Spec2Model ----
(***************************************************************************)
(* Model of the workflow transition engine of pvworkflowmanager:           *)
(*   - utils/transitionRules.ts   (resolver, permission evaluator)         *)
(*   - utils/workflowValidation.ts (graph validator)                       *)
(*   - data/dataAccess.ts         (localStorage-backed stores)             *)
(*   - the React handlers that call them (status change, task lists,       *)
(*     transition list, workflow form, task management).                   *)
(*                                                                         *)
(* Ids are modelled by small naturals: 'status-k' is k, 'user-k' is k,     *)
(* 'project-k' is k.  In the specifications of single calls a task id and  *)
(* a transition id are naturals; in the specifications of the application  *)
(* a seeded id 'x-k' is <<0, k>> and an id built from Date.now() is the    *)
(* tuple of the numbers it is built from (<<now>>, <<now, index>>).        *)
(* Arrays that the code only tests for membership and emptiness            *)
(* (approverRoles, approverUserIds) are sets; arrays whose order the code  *)
(* keeps (statuses, transitions, tasks, options, errors) are sequences.    *)
(***************************************************************************)
EXTENDS Naturals, Sequences, FiniteSets, TLC

VARIABLES
    \* --- inputs and result of one canUserTransition call ---
    pUser, pTransition, pBlocked, pResult,
    \* --- localStorage: the task store (STORAGE_KEYS.TASKS) ---
    stTasks,
    \* --- inputs and result of one getValidNextTransitions call ---
    rWorkflow, rCurrent, rOptions,
    \* --- inputs and result of one validateTransitionAgainstWorkflow call ---
    vWorkflow, vForm, vCandidate, vNext, vEditingId, vResult,
    \* --- localStorage: the project store and the workflow store ---
    stProjects, stWorkflows,
    \* --- localStorage: the status store (STORAGE_KEYS.STATUSES), as ids ---
    stStatuses,
    \* --- the taskOperations.markCompleted / markIncomplete calls made so far ---
    taskCalls,
    \* --- per browser tab: the Change Status dialog and the position of its
    \*     onConfirm between the two projectOperations.update calls ---
    confirms,
    \* --- AppContext: tasks and currentUser (React state) ---
    ctxTasks, currentUser,
    \* --- ProjectList: the Change Status dialog; the last task operation ---
    statusModal, lastTaskOp,
    \* --- WorkflowManagement: WorkflowForm, TransitionList, TransitionForm ---
    wfForm, tlWorkflow, tlForm, errorMessages,
    \* --- field changes and store writes made so far; Date.now(), which is
    \*     later at every handler run that writes ---
    steps, now

permVars == <<pUser, pTransition, pBlocked, pResult>>
resolveVars == <<rWorkflow, rCurrent, rOptions>>
validateVars == <<vWorkflow, vForm, vCandidate, vNext, vEditingId, vResult>>
flowVars == <<stProjects, ctxTasks, currentUser, statusModal, lastTaskOp>>
editVars == <<stWorkflows, wfForm, tlWorkflow, tlForm, errorMessages>>
clockVars == <<steps, now>>
statusVars == <<stStatuses>>
taskVars == <<taskCalls>>
raceVars == <<confirms>>
appVars == <<flowVars, editVars, clockVars>>
vars == <<pUser, pTransition, pBlocked, pResult, stTasks, rWorkflow, rCurrent, rOptions,
          vWorkflow, vForm, vCandidate, vNext, vEditingId, vResult,
          stProjects, stWorkflows, ctxTasks, currentUser, statusModal, lastTaskOp,
          wfForm, tlWorkflow, tlForm, errorMessages, steps, now, stStatuses, taskCalls, confirms>>

(***************************************************************************)
(* Bounds of the input domains.                                            *)
(***************************************************************************)
NUsers == 2
NStatus == 3
MaxTrans == 2
MaxTasks == 2

Roles == {"admin", "user"}
UserIds == 1..NUsers
StatusIds == 1..NStatus

\* "no value": undefined in the code (a reason, a string field)
Undefined == "undefined"
\* workflow: Workflow | undefined, the undefined case
NoWorkflow == [missing |-> TRUE]

\* the sequences over S of length at most n
SeqsUpTo(S, n) == UNION {[1..k -> S] : k \in 0..n}

RECURSIVE SeqToSet(_)
SeqToSet(s) == IF s = <<>> THEN {} ELSE {Head(s)} \cup SeqToSet(Tail(s))

\* Array.prototype.includes on a sequence
Includes(s, x) == \E i \in 1..Len(s) : s[i] = x

\* a call that has not been made yet
NotCalled == [allowed |-> FALSE, reason |-> "not called"]
NoOptions == <<[notCalled |-> TRUE]>>

\* the variable groups a specification does not use stay at these values
PermIdle ==
    /\ pUser = [id |-> 1, role |-> "admin"]
    /\ pTransition = Undefined
    /\ pBlocked = FALSE
    /\ pResult = NotCalled
ResolveIdle ==
    /\ rWorkflow = NoWorkflow
    /\ rCurrent = 1
    /\ rOptions = NoOptions
NoTaskOp == [op |-> "none", taskId |-> <<>>]
FlowIdle ==
    /\ stProjects = <<>>
    /\ ctxTasks = <<>>
    /\ currentUser = [id |-> 1, role |-> "admin"]
    /\ statusModal = <<>>
    /\ lastTaskOp = NoTaskOp
EditIdle ==
    /\ stWorkflows = <<>>
    /\ wfForm = <<>>
    /\ tlWorkflow = NoWorkflow
    /\ tlForm = <<>>
    /\ errorMessages = <<>>
StatusIdle == stStatuses = <<>>
TaskCallsIdle == taskCalls = <<>>
ConfirmsIdle == confirms = <<>>
ClockIdle ==
    /\ steps = 0
    /\ now = 1
AppIdle == FlowIdle /\ EditIdle /\ ClockIdle
NotValidated == [valid |-> FALSE, errors |-> <<"not called">>]
ValidateIdle ==
    /\ vWorkflow = NoWorkflow
    /\ vForm = Undefined
    /\ vCandidate = Undefined
    /\ vNext = <<>>
    /\ vEditingId = <<>>
    /\ vResult = NotValidated

(***************************************************************************)
(* utils/transitionRules.ts : canUserTransition                            *)
(***************************************************************************)
ReasonTasks == "Required tasks are incomplete for this transition."
ReasonPermission == "You do not have permission to execute this approval-required transition."

Allowed == [allowed |-> TRUE, reason |-> Undefined]
Denied(reason) == [allowed |-> FALSE, reason |-> reason]

\* mutant: the admin bypass is tested before the task gate
canUserTransition_AdminFirst(user, transition, blockedByTasks) ==
    IF user.role = "admin" THEN Allowed
    ELSE IF blockedByTasks THEN Denied(ReasonTasks)
    ELSE IF ~transition.requiresApproval THEN Allowed
    ELSE IF user.role \in transition.approverRoles
            \/ user.id \in transition.approverUserIds THEN Allowed
    ELSE Denied(ReasonPermission)

\* mutant: a listed approver user is not honoured (only roles are)
canUserTransition_RolesOnly(user, transition, blockedByTasks) ==
    IF blockedByTasks THEN Denied(ReasonTasks)
    ELSE IF user.role = "admin" THEN Allowed
    ELSE IF ~transition.requiresApproval THEN Allowed
    ELSE IF user.role \in transition.approverRoles THEN Allowed
    ELSE Denied(ReasonPermission)

canUserTransition(user, transition, blockedByTasks) ==
    IF blockedByTasks THEN Denied(ReasonTasks)
    ELSE IF user.role = "admin" THEN Allowed
    ELSE IF ~transition.requiresApproval THEN Allowed
    ELSE LET roleAllowed == user.role \in transition.approverRoles
             userAllowed == user.id \in transition.approverUserIds
         IN IF roleAllowed \/ userAllowed THEN Allowed
            ELSE Denied(ReasonPermission)

(***************************************************************************)
(* data/dataAccess.ts : taskOperations queries                             *)
(***************************************************************************)
\* mutant: the completion flag is not tested
getIncompleteByTransitionId_AnyCompletion(store, transitionId) ==
    LET keep(task) == task.transitionId = transitionId
    IN SelectSeq(store, keep)

getIncompleteByTransitionId(store, transitionId) ==
    LET keep(task) == task.transitionId = transitionId /\ ~task.isCompleted
    IN SelectSeq(store, keep)

(***************************************************************************)
(* utils/transitionRules.ts : getValidNextTransitions                      *)
(* workflow is NoWorkflow or a record with statuses and transitions;        *)
(* statuses is the list of Status ids handed in for display; store is the  *)
(* task store that taskOperations reads.                                   *)
(***************************************************************************)
\* idToStatus[t.toStatusId]: <<the Status>>, or <<>> (undefined) when the id is
\* not in the list handed in
idToStatus(statuses, id) == IF Includes(statuses, id) THEN <<id>> ELSE <<>>

NextTransitionOption(t, statuses, store) ==
    LET incompleteTasks == getIncompleteByTransitionId(store, t.id)
        isReq(task) == task.isRequired
        requiredIncomplete == SelectSeq(incompleteTasks, isReq)
        blockedByTasks == Len(requiredIncomplete) > 0
    IN [transition |-> t,
        toStatus |-> idToStatus(statuses, t.toStatusId),
        incompleteTasks |-> requiredIncomplete,
        blockedByTasks |-> blockedByTasks]

\* mutant: the target status is not checked against the workflow's statuses
getValidNextTransitions_NoTargetFilter(workflow, currentStatusId, statuses, store) ==
    IF workflow = NoWorkflow THEN <<>>
    ELSE LET isFrom(t) == t.fromStatusId = currentStatusId
             candidates == SelectSeq(workflow.transitions, isFrom)
         IN [i \in 1..Len(candidates) |->
                NextTransitionOption(candidates[i], statuses, store)]

getValidNextTransitions(workflow, currentStatusId, statuses, store) ==
    IF workflow = NoWorkflow THEN <<>>
    ELSE LET statusSet == SeqToSet(workflow.statuses)
             isFrom(t) == t.fromStatusId = currentStatusId
             candidates == SelectSeq(workflow.transitions, isFrom)
             inSet(t) == t.toStatusId \in statusSet
             kept == SelectSeq(candidates, inSet)
         IN [i \in 1..Len(kept) |->
                NextTransitionOption(kept[i], statuses, store)]

(***************************************************************************)
(* utils/workflowValidation.ts : hasCycle                                  *)
(***************************************************************************)
\* the first occurrences of s, in order (the insertion order of object keys)
RECURSIVE Dedupe(_, _)
Dedupe(s, seen) ==
    IF s = <<>> THEN <<>>
    ELSE IF Head(s) \in seen THEN Dedupe(Tail(s), seen)
    ELSE <<Head(s)>> \o Dedupe(Tail(s), seen \cup {Head(s)})

\* Object.keys(graph): the status ids, then every fromStatusId not yet a key
GraphKeys(statusIds, transitions) ==
    Dedupe(statusIds \o [i \in 1..Len(transitions) |-> transitions[i].fromStatusId], {})

\* graph[node] || []: the targets of the transitions leaving node, in order
GraphNeighbors(transitions, node) ==
    LET isFrom(t) == t.fromStatusId = node
        out == SelectSeq(transitions, isFrom)
    IN [i \in 1..Len(out) |-> out[i].toStatusId]

GraphNodes(statusIds, transitions) ==
    SeqToSet(statusIds)
        \cup {transitions[i].fromStatusId : i \in 1..Len(transitions)}
        \cup {transitions[i].toStatusId : i \in 1..Len(transitions)}

Unvisited == "unvisited"
Visiting == "visiting"
Done == "done"

\* dfs(node): [found, visited]; dfsEach is its loop over the neighbors
RECURSIVE dfs(_, _, _), dfsEach(_, _, _, _)
dfs(transitions, node, visited) ==
    IF visited[node] = Visiting THEN [found |-> TRUE, visited |-> visited]
    ELSE IF visited[node] = Done THEN [found |-> FALSE, visited |-> visited]
    ELSE LET r == dfsEach(transitions, GraphNeighbors(transitions, node), 1,
                          [visited EXCEPT ![node] = Visiting])
         IN IF r.found THEN r
            ELSE [found |-> FALSE, visited |-> [r.visited EXCEPT ![node] = Done]]
dfsEach(transitions, neighbors, i, visited) ==
    IF i > Len(neighbors) THEN [found |-> FALSE, visited |-> visited]
    ELSE LET r == dfs(transitions, neighbors[i], visited)
         IN IF r.found THEN r
            ELSE dfsEach(transitions, neighbors, i + 1, r.visited)

\* for (const n of nodes) if (!visited[n]) if (dfs(n)) return true
RECURSIVE hasCycleLoop(_, _, _, _)
hasCycleLoop(transitions, nodes, i, visited) ==
    IF i > Len(nodes) THEN FALSE
    ELSE IF visited[nodes[i]] # Unvisited
         THEN hasCycleLoop(transitions, nodes, i + 1, visited)
    ELSE LET r == dfs(transitions, nodes[i], visited)
         IN IF r.found THEN TRUE
            ELSE hasCycleLoop(transitions, nodes, i + 1, r.visited)

\* variant that leaves self-loops out of the graph
hasCycle_IgnoreSelfLoops(statusIds, transitions) ==
    LET notLoop(t) == t.fromStatusId # t.toStatusId
        kept == SelectSeq(transitions, notLoop)
    IN hasCycleLoop(kept, GraphKeys(statusIds, kept), 1,
                    [n \in GraphNodes(statusIds, kept) |-> Unvisited])

\* mutant: a node reached again is taken for done, so only self-loops are seen
hasCycle_SelfLoopsOnly(statusIds, transitions) ==
    \E i \in 1..Len(transitions) :
        transitions[i].fromStatusId = transitions[i].toStatusId

hasCycle(statusIds, transitions) ==
    hasCycleLoop(transitions, GraphKeys(statusIds, transitions), 1,
                 [n \in GraphNodes(statusIds, transitions) |-> Unvisited])

(***************************************************************************)
(* utils/workflowValidation.ts : hasDuplicateEdge, hasStartAndEndNodes     *)
(* ignoreId is <<>> (undefined) or <<id>>.                                 *)
(***************************************************************************)
\* variant that does not skip the transition being edited
hasDuplicateEdge_IgnoreNothing(transitions, fromStatusId, toStatusId, ignoreId) ==
    \E i \in 1..Len(transitions) :
        /\ transitions[i].fromStatusId = fromStatusId
        /\ transitions[i].toStatusId = toStatusId

hasDuplicateEdge(transitions, fromStatusId, toStatusId, ignoreId) ==
    \E i \in 1..Len(transitions) :
        /\ transitions[i].fromStatusId = fromStatusId
        /\ transitions[i].toStatusId = toStatusId
        /\ transitions[i].id \notin SeqToSet(ignoreId)

outDegree(transitions, id) ==
    Cardinality({i \in 1..Len(transitions) : transitions[i].fromStatusId = id})
inDegree(transitions, id) ==
    Cardinality({i \in 1..Len(transitions) : transitions[i].toStatusId = id})

\* variant that takes only the first status of the list for a start
hasStartAndEndNodes_FirstStatusStart(statusIds, transitions) ==
    IF Len(statusIds) <= 1 THEN TRUE
    ELSE IF Len(transitions) = 0 THEN FALSE
    ELSE /\ inDegree(transitions, statusIds[1]) = 0
         /\ outDegree(transitions, statusIds[1]) > 0
         /\ \E k \in 1..Len(statusIds) :
               /\ outDegree(transitions, statusIds[k]) = 0
               /\ inDegree(transitions, statusIds[k]) > 0

\* variant that requires a start only
hasStartAndEndNodes_StartOnly(statusIds, transitions) ==
    IF Len(statusIds) <= 1 THEN TRUE
    ELSE IF Len(transitions) = 0 THEN FALSE
    ELSE \E k \in 1..Len(statusIds) :
             /\ inDegree(transitions, statusIds[k]) = 0
             /\ outDegree(transitions, statusIds[k]) > 0

hasStartAndEndNodes(statusIds, transitions) ==
    IF Len(statusIds) <= 1 THEN TRUE
    ELSE IF Len(transitions) = 0 THEN FALSE
    ELSE LET hasStart == \E k \in 1..Len(statusIds) :
                 /\ inDegree(transitions, statusIds[k]) = 0
                 /\ outDegree(transitions, statusIds[k]) > 0
             hasEnd == \E k \in 1..Len(statusIds) :
                 /\ outDegree(transitions, statusIds[k]) = 0
                 /\ inDegree(transitions, statusIds[k]) > 0
         IN hasStart /\ hasEnd

(***************************************************************************)
(* utils/workflowValidation.ts : validateTransitionAgainstWorkflow         *)
(***************************************************************************)
ErrDuplicate == "A transition with the same From -> To already exists"
ErrCycle == "This change would create a circular dependency"
ErrStartEnd == "Workflow must contain at least one start and one end status"
ErrApprover == "Approval required: select at least one approver role or user"

\* mutant: the cycle check is left out
validateTransitionAgainstWorkflow_NoCycleCheck(workflow, nextTransitions, candidate, editingId) ==
    LET e1 == IF hasDuplicateEdge(nextTransitions, candidate.fromStatusId,
                                  candidate.toStatusId, editingId)
              THEN <<ErrDuplicate>> ELSE <<>>
        e3 == IF ~hasStartAndEndNodes(workflow.statuses, nextTransitions)
              THEN <<ErrStartEnd>> ELSE <<>>
        e4 == IF /\ candidate.requiresApproval
                 /\ candidate.approverRoles = {}
                 /\ candidate.approverUserIds = {}
              THEN <<ErrApprover>> ELSE <<>>
        errors == e1 \o e3 \o e4
    IN [valid |-> Len(errors) = 0, errors |-> errors]

\* variant without the approver requirement
validateTransitionAgainstWorkflow_NoApproverCheck(workflow, nextTransitions, candidate, editingId) ==
    LET e1 == IF hasDuplicateEdge(nextTransitions, candidate.fromStatusId,
                                  candidate.toStatusId, editingId)
              THEN <<ErrDuplicate>> ELSE <<>>
        e2 == IF hasCycle(workflow.statuses, nextTransitions)
              THEN <<ErrCycle>> ELSE <<>>
        e3 == IF ~hasStartAndEndNodes(workflow.statuses, nextTransitions)
              THEN <<ErrStartEnd>> ELSE <<>>
        errors == e1 \o e2 \o e3
    IN [valid |-> Len(errors) = 0, errors |-> errors]

\* variant that stops at the first failing check
validateTransitionAgainstWorkflow_FirstErrorOnly(workflow, nextTransitions, candidate, editingId) ==
    LET errors ==
            IF hasDuplicateEdge(nextTransitions, candidate.fromStatusId,
                                candidate.toStatusId, editingId)
            THEN <<ErrDuplicate>>
            ELSE IF hasCycle(workflow.statuses, nextTransitions)
            THEN <<ErrCycle>>
            ELSE IF ~hasStartAndEndNodes(workflow.statuses, nextTransitions)
            THEN <<ErrStartEnd>>
            ELSE IF /\ candidate.requiresApproval
                    /\ candidate.approverRoles = {}
                    /\ candidate.approverUserIds = {}
            THEN <<ErrApprover>>
            ELSE <<>>
    IN [valid |-> Len(errors) = 0, errors |-> errors]

validateTransitionAgainstWorkflow(workflow, nextTransitions, candidate, editingId) ==
    LET e1 == IF hasDuplicateEdge(nextTransitions, candidate.fromStatusId,
                                  candidate.toStatusId, editingId)
              THEN <<ErrDuplicate>> ELSE <<>>
        e2 == IF hasCycle(workflow.statuses, nextTransitions)
              THEN <<ErrCycle>> ELSE <<>>
        e3 == IF ~hasStartAndEndNodes(workflow.statuses, nextTransitions)
              THEN <<ErrStartEnd>> ELSE <<>>
        e4 == IF /\ candidate.requiresApproval
                 /\ candidate.approverRoles = {}
                 /\ candidate.approverUserIds = {}
              THEN <<ErrApprover>> ELSE <<>>
        errors == e1 \o e2 \o e3 \o e4
    IN [valid |-> Len(errors) = 0, errors |-> errors]

(***************************************************************************)
(* Specification SpecPerm: canUserTransition over every input of the       *)
(* bounded domain.                                                         *)
(***************************************************************************)
PermTransitions ==
    [id : {1}, fromStatusId : {1}, toStatusId : {2},
     requiresApproval : BOOLEAN,
     approverRoles : SUBSET Roles,
     approverUserIds : SUBSET UserIds]

PermUsers == [id : UserIds, role : Roles]

InitPerm ==
    /\ pUser \in PermUsers
    /\ pTransition \in PermTransitions
    /\ pBlocked \in BOOLEAN
    /\ pResult = NotCalled
    /\ stTasks = <<>>
    /\ StatusIdle
    /\ TaskCallsIdle
    /\ ConfirmsIdle
    /\ ResolveIdle
    /\ ValidateIdle
    /\ AppIdle

CallCanUserTransition ==
    /\ pResult = NotCalled
    /\ pResult' = canUserTransition(pUser, pTransition, pBlocked)
    /\ UNCHANGED <<pUser, pTransition, pBlocked, stTasks, resolveVars, validateVars, appVars,
                   statusVars, taskVars, raceVars>>

NextPerm == CallCanUserTransition

SpecPerm == InitPerm /\ [][NextPerm]_vars

PermCalled == pResult # NotCalled

\* C1: with blockedByTasks = true the call denies with the task reason, for
\* every user (admins and listed approvers included) and every transition.
C1_TaskGateOverridesAll ==
    (PermCalled /\ pBlocked) =>
        (pResult.allowed = FALSE /\ pResult.reason = ReasonTasks)

\* C1 witness: an admin who is also a listed approver was denied by the gate
C1_Witness ==
    /\ PermCalled /\ pBlocked
    /\ pUser.role = "admin"
    /\ pUser.id \in pTransition.approverUserIds
    /\ pTransition.requiresApproval
    /\ pResult.allowed = FALSE

\* C5: with blockedByTasks = false the call allows exactly when the user is an
\* admin, or no approval is required, or the user's role or id is listed; every
\* other call denies with the permission reason.
C5_PermissionDecision ==
    (PermCalled /\ ~pBlocked) =>
        /\ pResult.allowed <=>
              \/ pUser.role = "admin"
              \/ pTransition.requiresApproval = FALSE
              \/ pUser.role \in pTransition.approverRoles
              \/ pUser.id \in pTransition.approverUserIds
        /\ pResult.allowed => pResult.reason = Undefined
        /\ ~pResult.allowed => pResult.reason = ReasonPermission

\* C5 witness: a non-admin allowed only because their id is listed, and
\* (separately checked by the formula) a denial; here the listed-user case
C5_Witness ==
    /\ PermCalled /\ ~pBlocked
    /\ pUser.role = "user"
    /\ pTransition.requiresApproval
    /\ pUser.role \notin pTransition.approverRoles
    /\ pUser.id \in pTransition.approverUserIds
    /\ pResult.allowed

(***************************************************************************)
(* Specification SpecResolve: getValidNextTransitions over bounded inputs. *)
(* Either the workflow and the current status range over the whole input   *)
(* domain with a fixed task store, or the task store ranges over its       *)
(* domain with a fixed workflow that offers two transitions.               *)
(***************************************************************************)
MkTransition(id, from, to) ==
    [id |-> id, fromStatusId |-> from, toStatusId |-> to,
     requiresApproval |-> FALSE, approverRoles |-> {}, approverUserIds |-> {}]

MkTask(id, transitionId, isRequired, isCompleted) ==
    [id |-> id, transitionId |-> transitionId,
     isRequired |-> isRequired, isCompleted |-> isCompleted]

Prefix(k) == [i \in 1..k |-> i]

EdgeLists == SeqsUpTo(StatusIds \X StatusIds, MaxTrans)
TransitionsOf(edges) ==
    [i \in 1..Len(edges) |-> MkTransition(i, edges[i][1], edges[i][2])]

ResolveWorkflows ==
    {NoWorkflow} \cup
    {[statuses |-> Prefix(k), transitions |-> TransitionsOf(e)] :
        k \in 0..NStatus, e \in EdgeLists}

TaskAttrLists ==
    SeqsUpTo((1..MaxTrans) \X BOOLEAN \X BOOLEAN, MaxTasks)
TaskStores ==
    {[i \in 1..Len(a) |-> MkTask(i, a[i][1], a[i][2], a[i][3])] :
        a \in TaskAttrLists}

SampleWorkflow ==
    [statuses |-> Prefix(NStatus),
     transitions |-> <<MkTransition(1, 1, 2), MkTransition(2, 1, NStatus)>>]
SampleTaskStore ==
    <<MkTask(1, 1, TRUE, FALSE), MkTask(2, 2, FALSE, FALSE)>>

InitResolve ==
    /\ PermIdle
    /\ StatusIdle
    /\ TaskCallsIdle
    /\ ConfirmsIdle
    /\ ValidateIdle
    /\ AppIdle
    /\ rOptions = NoOptions
    /\ \/ /\ rWorkflow \in ResolveWorkflows
          /\ rCurrent \in StatusIds
          /\ stTasks = SampleTaskStore
       \/ /\ rWorkflow = SampleWorkflow
          /\ rCurrent = 1
          /\ stTasks \in TaskStores

CallGetValidNextTransitions ==
    /\ rOptions = NoOptions
    /\ rOptions' = getValidNextTransitions(rWorkflow, rCurrent, Prefix(NStatus), stTasks)
    /\ UNCHANGED <<statusVars, taskVars, raceVars, permVars, validateVars, stTasks, rWorkflow, rCurrent, appVars>>

NextResolve == CallGetValidNextTransitions

SpecResolve == InitResolve /\ [][NextResolve]_vars

ResolveCalled == rOptions # NoOptions

\* the tasks of the store that gate transition id: required and not completed
RequiredIncompleteOf(store, id) ==
    {store[i] : i \in {j \in 1..Len(store) :
        /\ store[j].transitionId = id
        /\ store[j].isRequired
        /\ ~store[j].isCompleted}}

\* C3: every returned option is blocked exactly when the store holds a
\* required, not completed task of its transition, and incompleteTasks is
\* exactly the set of those tasks.
C3_BlockedIffRequiredIncomplete ==
    ResolveCalled =>
        \A j \in 1..Len(rOptions) :
            LET o == rOptions[j]
                gating == RequiredIncompleteOf(stTasks, o.transition.id)
            IN /\ o.blockedByTasks <=> (gating # {})
               /\ SeqToSet(o.incompleteTasks) = gating
               /\ Len(o.incompleteTasks) = Cardinality(gating)

\* C3 witness: one option blocked by a required incomplete task, another left
\* unblocked although an optional task of it is incomplete
C3_Witness ==
    /\ ResolveCalled
    /\ Len(rOptions) = 2
    /\ rOptions[1].blockedByTasks
    /\ ~rOptions[2].blockedByTasks
    /\ \E i \in 1..Len(stTasks) :
          /\ stTasks[i].transitionId = rOptions[2].transition.id
          /\ ~stTasks[i].isRequired /\ ~stTasks[i].isCompleted

\* the positions of workflow.transitions that leave current for a status of
\* the workflow
SurvivingIdx(workflow, current) ==
    {i \in 1..Len(workflow.transitions) :
        /\ workflow.transitions[i].fromStatusId = current
        /\ \E k \in 1..Len(workflow.statuses) :
              workflow.statuses[k] = workflow.transitions[i].toStatusId}

\* C4: no workflow gives the empty list; otherwise the options are, in the
\* order of workflow.transitions, exactly the transitions that leave the
\* current status for a status of the workflow.
C4_OptionsAreSurvivingTransitions ==
    ResolveCalled =>
        IF rWorkflow = NoWorkflow THEN rOptions = <<>>
        ELSE LET idx == SurvivingIdx(rWorkflow, rCurrent)
             IN /\ Len(rOptions) = Cardinality(idx)
                /\ \A j \in 1..Len(rOptions) :
                      \E i \in idx :
                         /\ Cardinality({k \in idx : k <= i}) = j
                         /\ rOptions[j].transition = rWorkflow.transitions[i]

\* C4 witness: statuses {1,2} with the single transition 1 -> 3 resolved from
\* status 1 gives no option
C4_Witness ==
    /\ ResolveCalled
    /\ rWorkflow # NoWorkflow
    /\ rWorkflow.statuses = <<1, 2>>
    /\ rWorkflow.transitions = <<MkTransition(1, 1, 3)>>
    /\ rCurrent = 1
    /\ rOptions = <<>>

(***************************************************************************)
(* Specification SpecValidate: validateTransitionAgainstWorkflow called as *)
(* the transition list calls it, over bounded workflows and form values.   *)
(*   add : next = [...transitions, t], no editing id   (handleCreate)      *)
(*   edit: next = transitions with t in place of the transition of the     *)
(*         same id, editing id = t.id                  (handleEdit)        *)
(***************************************************************************)
ApprovalVariants ==
    {<<FALSE, {}, {}>>, <<TRUE, {}, {}>>, <<TRUE, {"admin"}, {}>>, <<TRUE, {}, {1}>>}

FormValues ==
    {[fromStatusId |-> f, toStatusId |-> t, requiresApproval |-> a[1],
      approverRoles |-> a[2], approverUserIds |-> a[3]] :
        f \in StatusIds, t \in StatusIds, a \in ApprovalVariants}

\* stored transition lists: no self-loop, no two transitions with the same
\* (from, to) pair, in any order
StoredEdges == {e \in StatusIds \X StatusIds : e[1] # e[2]}
StoredEdgeLists ==
    {l \in SeqsUpTo(StoredEdges, MaxTrans) :
        \A i, j \in 1..Len(l) : i # j => l[i] # l[j]}

ValidateWorkflows ==
    {[statuses |-> Prefix(k), transitions |-> TransitionsOf(e)] :
        k \in 0..NStatus, e \in StoredEdgeLists}

\* TransitionForm.handleSubmit: the Transition built from the form's fields
FormTransition(id, form) ==
    [id |-> id, fromStatusId |-> form.fromStatusId, toStatusId |-> form.toStatusId,
     requiresApproval |-> form.requiresApproval,
     approverRoles |-> form.approverRoles, approverUserIds |-> form.approverUserIds]

\* an id no transition of the list has (`trans-${Date.now()}`)
FreshId(transitions) == Len(transitions) + 1

\* (currentWorkflow.transitions || []).map(x => x.id === t.id ? t : x)
ReplaceById(transitions, t) ==
    [i \in 1..Len(transitions) |->
        IF transitions[i].id = t.id THEN t ELSE transitions[i]]

InitValidate ==
    /\ PermIdle
    /\ StatusIdle
    /\ TaskCallsIdle
    /\ ConfirmsIdle
    /\ ResolveIdle
    /\ AppIdle
    /\ stTasks = <<>>
    /\ vWorkflow \in ValidateWorkflows
    /\ vForm \in FormValues
    /\ vCandidate = Undefined
    /\ vNext = <<>>
    /\ vEditingId = <<>>
    /\ vResult = NotValidated

ValidateAdd ==
    /\ vResult = NotValidated
    /\ LET t == FormTransition(FreshId(vWorkflow.transitions), vForm)
           next == Append(vWorkflow.transitions, t)
       IN /\ vCandidate' = t
          /\ vNext' = next
          /\ vEditingId' = <<>>
          /\ vResult' = validateTransitionAgainstWorkflow(vWorkflow, next, t, <<>>)
    /\ UNCHANGED <<statusVars, taskVars, raceVars, permVars, resolveVars, stTasks, vWorkflow, vForm, appVars>>

ValidateEdit ==
    /\ vResult = NotValidated
    /\ \E i \in 1..Len(vWorkflow.transitions) :
          LET t == FormTransition(vWorkflow.transitions[i].id, vForm)
              next == ReplaceById(vWorkflow.transitions, t)
          IN /\ vCandidate' = t
             /\ vNext' = next
             /\ vEditingId' = <<t.id>>
             /\ vResult' = validateTransitionAgainstWorkflow(vWorkflow, next, t, <<t.id>>)
    /\ UNCHANGED <<statusVars, taskVars, raceVars, permVars, resolveVars, stTasks, vWorkflow, vForm, appVars>>

NextValidate == ValidateAdd \/ ValidateEdit

SpecValidate == InitValidate /\ [][NextValidate]_vars

Validated == vResult # NotValidated
AddFlow == Validated /\ vEditingId = <<>>
Reported(err) == \E i \in 1..Len(vResult.errors) : vResult.errors[i] = err

\* C6: in the add flow the duplicate-edge violation is reported exactly when a
\* transition that was in the workflow before the add has the candidate's
\* (from, to) pair.
C6_DuplicateIffAlreadyPresent ==
    AddFlow =>
        (Reported(ErrDuplicate) <=>
            \E i \in 1..Len(vWorkflow.transitions) :
                /\ vWorkflow.transitions[i].fromStatusId = vCandidate.fromStatusId
                /\ vWorkflow.transitions[i].toStatusId = vCandidate.toStatusId)

\* the directed graph of a transition list, and whether it has a cycle
EdgesOf(transitions) ==
    {<<transitions[i].fromStatusId, transitions[i].toStatusId>> :
        i \in 1..Len(transitions)}
RECURSIVE ReachableFrom(_, _, _)
ReachableFrom(E, S, k) ==
    LET S2 == S \cup {e[2] : e \in {x \in E : x[1] \in S}}
    IN IF k = 0 \/ S2 = S THEN S ELSE ReachableFrom(E, S2, k - 1)
HasDirectedCycle(E) ==
    \E e \in E : e[1] \in ReachableFrom(E, {e[2]}, Cardinality(E))

\* C7: the circular-dependency violation is reported exactly when the graph
\* of the whole proposed list (existing transitions and candidate) has a
\* directed cycle; a call that reports it is not valid.
C7_CycleIffProposedGraphCyclic ==
    Validated =>
        /\ Reported(ErrCycle) <=> HasDirectedCycle(EdgesOf(vNext))
        /\ Reported(ErrCycle) => ~vResult.valid

\* C7 witness: statuses {1,2,3} with 1 -> 2 and 2 -> 3 present, adding 3 -> 1
\* is rejected with the cycle violation
C7_Witness ==
    /\ AddFlow
    /\ vWorkflow.statuses = <<1, 2, 3>>
    /\ vWorkflow.transitions = <<MkTransition(1, 1, 2), MkTransition(2, 2, 3)>>
    /\ vCandidate.fromStatusId = 3 /\ vCandidate.toStatusId = 1
    /\ Reported(ErrCycle)
    /\ ~vResult.valid

\* the transitions of a list with an endpoint that is not in the status list
OutsideEndpoints(statuses, transitions) ==
    {i \in 1..Len(transitions) :
        \/ ~Includes(statuses, transitions[i].fromStatusId)
        \/ ~Includes(statuses, transitions[i].toStatusId)}

\* C13: the validator never returns valid = true for a proposed list in which
\* some transition has an endpoint outside the workflow's status list.
C13_OutsideEndpointNeverValid ==
    Validated =>
        (OutsideEndpoints(vWorkflow.statuses, vNext) # {} => ~vResult.valid)

EditFlow == Validated /\ vEditingId # <<>>
\* the transitions of the proposed list with the candidate's (from, to) pair
SamePairAsCandidate ==
    {i \in 1..Len(vNext) :
        /\ vNext[i].fromStatusId = vCandidate.fromStatusId
        /\ vNext[i].toStatusId = vCandidate.toStatusId}

\* C15: in the edit flow no duplicate-edge violation is reported when the
\* only transition of the proposed list with the candidate's pair is the one
\* being edited, and it is reported when a transition with another id has
\* that pair.
C15_EditDoesNotSelfReject ==
    EditFlow =>
        /\ (\A i \in SamePairAsCandidate : vNext[i].id = vEditingId[1])
               => ~Reported(ErrDuplicate)
        /\ (\E i \in SamePairAsCandidate : vNext[i].id # vEditingId[1])
               => Reported(ErrDuplicate)

\* a transition is edited without changing its pair, next to another
\* transition, and no duplicate is reported
C15_Witness ==
    /\ EditFlow
    /\ Len(vNext) = 2
    /\ \E i \in 1..Len(vWorkflow.transitions) :
          /\ vWorkflow.transitions[i].id = vEditingId[1]
          /\ vWorkflow.transitions[i].fromStatusId = vCandidate.fromStatusId
          /\ vWorkflow.transitions[i].toStatusId = vCandidate.toStatusId
    /\ SamePairAsCandidate # {}
    /\ ~Reported(ErrDuplicate)

\* a status of the list that no edge enters and some edge leaves (a start),
\* and one that no edge leaves and some edge enters (an end)
HasStartStatus(statuses, transitions) ==
    \E s \in SeqToSet(statuses) :
        /\ \A e \in EdgesOf(transitions) : e[2] # s
        /\ \E e \in EdgesOf(transitions) : e[1] = s
HasEndStatus(statuses, transitions) ==
    \E s \in SeqToSet(statuses) :
        /\ \A e \in EdgesOf(transitions) : e[1] # s
        /\ \E e \in EdgesOf(transitions) : e[2] = s

\* C16: the start/end check passes whenever the workflow has at most one
\* status; otherwise it passes exactly when, over the proposed list, some
\* status of the workflow is a start and some status of the workflow is an
\* end.
C16_StartEndCheck ==
    Validated =>
        (~Reported(ErrStartEnd) <=>
            \/ Len(vWorkflow.statuses) <= 1
            \/ /\ HasStartStatus(vWorkflow.statuses, vNext)
               /\ HasEndStatus(vWorkflow.statuses, vNext))

\* statuses {1,2,3} with 1 -> 2 and 2 -> 1 fail the check
C16_Witness ==
    /\ Validated
    /\ vWorkflow.statuses = <<1, 2, 3>>
    /\ EdgesOf(vNext) = {<<1, 2>>, <<2, 1>>}
    /\ Reported(ErrStartEnd)

\* the messages of the checks that fail on the validated call
FailingChecks ==
    {e \in {ErrDuplicate} :
        hasDuplicateEdge(vNext, vCandidate.fromStatusId, vCandidate.toStatusId,
                         vEditingId)}
    \cup {e \in {ErrCycle} : hasCycle(vWorkflow.statuses, vNext)}
    \cup {e \in {ErrStartEnd} : ~hasStartAndEndNodes(vWorkflow.statuses, vNext)}
    \cup {e \in {ErrApprover} :
            /\ vCandidate.requiresApproval
            /\ vCandidate.approverRoles = {}
            /\ vCandidate.approverUserIds = {}}
IsFailingCheck(e) == e \in FailingChecks

\* C17: every call evaluates the four checks and returns one message per
\* failing check in the order duplicate edge, cycle, start/end, approver
\* requirement; valid is true exactly when the list is empty.
C17_AllChecksCollectedInOrder ==
    Validated =>
        /\ vResult.errors =
               SelectSeq(<<ErrDuplicate, ErrCycle, ErrStartEnd, ErrApprover>>,
                         IsFailingCheck)
        /\ vResult.valid <=> vResult.errors = <<>>

\* a call on which all four checks fail returns the four messages
C17_Witness ==
    /\ Validated
    /\ FailingChecks = {ErrDuplicate, ErrCycle, ErrStartEnd, ErrApprover}
    /\ vResult.errors = <<ErrDuplicate, ErrCycle, ErrStartEnd, ErrApprover>>
    /\ ~vResult.valid

\* a workflow with at least two statuses and a non-empty proposed list whose
\* endpoints are all statuses of the workflow
ClosedNonEmptyInput ==
    /\ Validated
    /\ Len(vWorkflow.statuses) >= 2
    /\ vNext # <<>>
    /\ OutsideEndpoints(vWorkflow.statuses, vNext) = {}

\* C30: on such inputs the start/end violation is never reported without
\* the cycle violation: when the cycle check passes, so does the start/end
\* check.
C30_AcyclicHasStartAndEnd ==
    (ClosedNonEmptyInput /\ ~Reported(ErrCycle)) => ~Reported(ErrStartEnd)

\* statuses {1,2,3} with the single transition 2 -> 3 pass both checks
C30_Witness ==
    /\ ClosedNonEmptyInput
    /\ vWorkflow.statuses = <<1, 2, 3>>
    /\ EdgesOf(vNext) = {<<2, 3>>}
    /\ ~Reported(ErrCycle)
    /\ ~Reported(ErrStartEnd)

(***************************************************************************)
(* data/mockData.ts : the seeded data                                      *)
(***************************************************************************)
\* handler runs that write, in the project list; field changes and writes,
\* in the workflow management page
MaxSteps == 2
MaxEdits == 3

\* createMockStatuses: status-1 .. status-5, all of entity type 'project'
createMockStatuses == <<1, 2, 3, 4, 5>>

\* createMockUsers: user-1 is the administrator
createMockUsers ==
    <<[id |-> 1, role |-> "admin"], [id |-> 2, role |-> "user"],
      [id |-> 3, role |-> "user"], [id |-> 4, role |-> "user"],
      [id |-> 5, role |-> "user"]>>

SeedTransition(k, from, to, requiresApproval, roles, users) ==
    [id |-> <<0, k>>, fromStatusId |-> from, toStatusId |-> to,
     requiresApproval |-> requiresApproval,
     approverRoles |-> roles, approverUserIds |-> users]

\* createMockWorkflows: workflow-1 (trans-1 .. trans-4) and workflow-2
\* (trans-express-1 is <<0, 5>>, trans-express-2 is <<0, 6>>)
createMockWorkflows ==
    <<[id |-> <<0, 1>>, entityType |-> "project", isDefault |-> TRUE,
       statuses |-> <<1, 2, 3, 4, 5>>,
       transitions |->
           <<SeedTransition(1, 1, 2, FALSE, {}, {}),
             SeedTransition(2, 2, 3, TRUE, {"admin"}, {}),
             SeedTransition(3, 3, 4, FALSE, {}, {}),
             SeedTransition(4, 4, 5, TRUE, {"admin"}, {1})>>],
      [id |-> <<0, 2>>, entityType |-> "project", isDefault |-> FALSE,
       statuses |-> <<1, 4, 5>>,
       transitions |->
           <<SeedTransition(5, 1, 4, FALSE, {}, {}),
             SeedTransition(6, 4, 5, TRUE, {"admin"}, {})>>]>>

SeedTask(k, transition, assignedUserId, isCompleted, completedAt, completedBy) ==
    [id |-> <<0, k>>, transitionId |-> <<0, transition>>,
     assignedUserId |-> assignedUserId, isRequired |-> TRUE,
     isCompleted |-> isCompleted,
     completedAt |-> completedAt, completedBy |-> completedBy]

\* createMockTasks: task-3 was completed by user-2 before the session (time 0)
createMockTasks ==
    <<SeedTask(1, 1, 3, FALSE, <<>>, <<>>),
      SeedTask(2, 2, 4, FALSE, <<>>, <<>>),
      SeedTask(3, 2, 2, TRUE, <<0>>, <<2>>),
      SeedTask(4, 3, 3, FALSE, <<>>, <<>>),
      SeedTask(5, 4, 5, FALSE, <<>>, <<>>)>>

\* a StatusHistoryEntry; from is <<>> for the entry of the creation
HistoryEntry(from, to, userId) ==
    [fromStatusId |-> from, toStatusId |-> to, userId |-> userId]

\* createMockProjects: project-1 .. project-6
createMockProjects ==
    <<[id |-> 1, workflowId |-> <<0, 1>>, currentStatusId |-> 2,
       statusHistory |-> <<HistoryEntry(<<>>, 1, 2), HistoryEntry(<<1>>, 2, 2)>>],
      [id |-> 2, workflowId |-> <<0, 1>>, currentStatusId |-> 1,
       statusHistory |-> <<HistoryEntry(<<>>, 1, 1)>>],
      [id |-> 3, workflowId |-> <<0, 2>>, currentStatusId |-> 4,
       statusHistory |-> <<HistoryEntry(<<>>, 1, 3), HistoryEntry(<<1>>, 4, 3)>>],
      [id |-> 4, workflowId |-> <<0, 1>>, currentStatusId |-> 5,
       statusHistory |->
           <<HistoryEntry(<<>>, 1, 1), HistoryEntry(<<1>>, 2, 1),
             HistoryEntry(<<2>>, 3, 4), HistoryEntry(<<3>>, 4, 2),
             HistoryEntry(<<4>>, 5, 3)>>],
      [id |-> 5, workflowId |-> <<0, 1>>, currentStatusId |-> 3,
       statusHistory |->
           <<HistoryEntry(<<>>, 1, 4), HistoryEntry(<<1>>, 2, 4),
             HistoryEntry(<<2>>, 3, 2)>>],
      [id |-> 6, workflowId |-> <<0, 1>>, currentStatusId |-> 1,
       statusHistory |-> <<HistoryEntry(<<>>, 1, 5)>>]>>

(***************************************************************************)
(* data/dataAccess.ts : the stores                                         *)
(***************************************************************************)
\* findIndex(x => x.id === id), counted from 1; 0 is findIndex's -1
IndexOfId(list, id) ==
    IF \E i \in 1..Len(list) : list[i].id = id
    THEN CHOOSE i \in 1..Len(list) :
            /\ list[i].id = id
            /\ \A j \in 1..(i - 1) : list[j].id # id
    ELSE 0

\* { ...record, ...updates } for the fields the model keeps
Merge(record, updates) ==
    [f \in DOMAIN record |-> IF f \in DOMAIN updates THEN updates[f] ELSE record[f]]

\* projectOperations.update: the store after the call (unchanged when the id
\* is not found and the call returns null)
projectOperationsUpdate(projects, id, updates) ==
    LET index == IndexOfId(projects, id)
    IN IF index = 0 THEN projects
       ELSE [projects EXCEPT ![index] = Merge(projects[index], updates)]

\* mutant: the completion stamp is written, the flag is not
markCompleted_StampOnly(store, id, completedByUserId, at) ==
    LET index == IndexOfId(store, id)
    IN IF index = 0 THEN store
       ELSE [store EXCEPT ![index] =
                [@ EXCEPT !.completedAt = <<at>>,
                          !.completedBy = <<completedByUserId>>]]

\* variant that leaves the stamps of an earlier completion in place
markCompleted_NoStampRefresh(store, id, completedByUserId, at) ==
    LET index == IndexOfId(store, id)
    IN IF index = 0 THEN store
       ELSE [store EXCEPT ![index] = [@ EXCEPT !.isCompleted = TRUE]]

\* taskOperations.markCompleted: the store after the call
markCompleted(store, id, completedByUserId, at) ==
    LET index == IndexOfId(store, id)
    IN IF index = 0 THEN store
       ELSE [store EXCEPT ![index] =
                [@ EXCEPT !.isCompleted = TRUE,
                          !.completedAt = <<at>>,
                          !.completedBy = <<completedByUserId>>]]

\* variant that only flips the flag
markIncomplete_KeepsStamps(store, id) ==
    LET index == IndexOfId(store, id)
    IN IF index = 0 THEN store
       ELSE [store EXCEPT ![index] = [@ EXCEPT !.isCompleted = FALSE]]

\* taskOperations.markIncomplete: the store after the call
markIncomplete(store, id) ==
    LET index == IndexOfId(store, id)
    IN IF index = 0 THEN store
       ELSE [store EXCEPT ![index] =
                [@ EXCEPT !.isCompleted = FALSE,
                          !.completedAt = <<>>,
                          !.completedBy = <<>>]]

(***************************************************************************)
(* The project list page: Change Status dialog, task lists, role switch,   *)
(* and the Task Management page, over the seeded stores.                   *)
(***************************************************************************)
\* AppContext: workflows is React state initialised from createMockWorkflows
\* and never set afterwards
ctxWorkflows == createMockWorkflows

isAdmin == currentUser.role = "admin"

\* ProjectList.getWorkflowForProject: workflows.find(w => w.id === workflowId)
getWorkflowForProject(project) ==
    LET index == IndexOfId(ctxWorkflows, project.workflowId)
    IN IF index = 0 THEN NoWorkflow ELSE ctxWorkflows[index]

\* users.find(u => u.role === userRole)
FirstUserWithRole(role) ==
    createMockUsers[CHOOSE i \in 1..Len(createMockUsers) :
                        /\ createMockUsers[i].role = role
                        /\ \A j \in 1..(i - 1) : createMockUsers[j].role # role]

\* StatusChangeModal: options.find(o => o.transition.id === selectedId); the
\* selection is the first option (no seeded status has two ways out, so the
\* select never offers another one)
SelectedOption(modal) ==
    LET hit == {i \in 1..Len(modal.options) :
                   modal.selectedId = <<modal.options[i].transition.id>>}
    IN IF hit = {} THEN <<>>
       ELSE <<modal.options[CHOOSE i \in hit : \A j \in hit : i <= j]>>

\* mutant: Confirm does not ask the permission evaluator
ConfirmPermission_Unchecked(user, selected) == Allowed

\* StatusChangeModal, Confirm: the permission asked for the selected option
ConfirmPermission(user, selected) ==
    canUserTransition(user, selected.transition, selected.blockedByTasks)

\* variant that writes the new status and no history entry
onConfirm_NoHistory(projects, project, transition, user) ==
    projectOperationsUpdate(projects, project.id,
                            [currentStatusId |-> transition.toStatusId])

\* ProjectList, onConfirm: the project store after the two writes
onConfirm(projects, project, transition, user) ==
    LET index == IndexOfId(projects, project.id)
        written == projectOperationsUpdate(projects, project.id,
                       [currentStatusId |-> transition.toStatusId])
    IN IF index = 0 THEN projects
       ELSE LET historyEntry == HistoryEntry(<<project.currentStatusId>>,
                                             transition.toStatusId, user.id)
                nextHistory == Append(written[index].statusHistory, historyEntry)
            IN projectOperationsUpdate(written, project.id,
                                       [statusHistory |-> nextHistory])

\* UserTaskList: the rows shown in the task dialog of a project
UserTaskVisible(project, task) ==
    LET workflow == getWorkflowForProject(project)
        relevant == IF workflow = NoWorkflow THEN {}
                    ELSE {workflow.transitions[i].id :
                            i \in {j \in 1..Len(workflow.transitions) :
                                     workflow.transitions[j].fromStatusId
                                         = project.currentStatusId}}
    IN /\ (task.assignedUserId = currentUser.id \/ isAdmin)
       /\ task.transitionId \in relevant

\* every transition of the context's workflows (AppContext.transitions)
ctxTransitionIds ==
    UNION {{ctxWorkflows[w].transitions[i].id :
                i \in 1..Len(ctxWorkflows[w].transitions)} :
           w \in 1..Len(ctxWorkflows)}

InitFlow ==
    /\ PermIdle
    /\ StatusIdle
    /\ TaskCallsIdle
    /\ ConfirmsIdle
    /\ ResolveIdle
    /\ ValidateIdle
    /\ EditIdle
    /\ stTasks = createMockTasks
    /\ stProjects = createMockProjects
    /\ ctxTasks = createMockTasks
    /\ currentUser = createMockUsers[1]
    /\ statusModal = <<>>
    /\ lastTaskOp = NoTaskOp
    /\ steps = 0
    /\ now = 1

FlowFrame == UNCHANGED <<statusVars, taskVars, raceVars, permVars, resolveVars, validateVars, editVars>>

\* Layout, role switch: currentUser follows userRole
setUserRole(role) ==
    /\ statusModal = <<>>
    /\ currentUser.role # role
    /\ currentUser' = FirstUserWithRole(role)
    /\ UNCHANGED <<stTasks, stProjects, ctxTasks, statusModal, lastTaskOp, steps, now>>
    /\ FlowFrame

\* ProjectList.handleStatusModal: the dialog mounts and resolves the options
handleStatusModal(p) ==
    /\ statusModal = <<>>
    /\ LET project == stProjects[p]
           options == getValidNextTransitions(getWorkflowForProject(project),
                          project.currentStatusId, createMockStatuses, stTasks)
       IN statusModal' =
            <<[project |-> project,
               options |-> options,
               selectedId |-> IF options = <<>> THEN <<>>
                              ELSE <<options[1].transition.id>>,
               error |-> Undefined]>>
    /\ UNCHANGED <<stTasks, stProjects, ctxTasks, currentUser, lastTaskOp, steps, now>>
    /\ FlowFrame

\* StatusChangeModal: the Confirm button (disabled without a selection or
\* when the selection is blocked by tasks), then ProjectList's onConfirm
ConfirmStatusChange ==
    /\ statusModal # <<>>
    /\ steps < MaxSteps
    /\ SelectedOption(statusModal[1]) # <<>>
    /\ LET modal == statusModal[1]
           selected == SelectedOption(modal)[1]
           perm == ConfirmPermission(currentUser, selected)
       IN /\ ~selected.blockedByTasks
          /\ IF ~perm.allowed
             THEN /\ statusModal' = <<[modal EXCEPT !.error = perm.reason]>>
                  /\ UNCHANGED <<stProjects, steps, now>>
             ELSE /\ stProjects' = onConfirm(stProjects, modal.project,
                                             selected.transition, currentUser)
                  /\ statusModal' = <<>>
                  /\ steps' = steps + 1
                  /\ now' = now + 1
    /\ UNCHANGED <<stTasks, ctxTasks, currentUser, lastTaskOp>>
    /\ FlowFrame

\* StatusChangeModal: Cancel
CancelStatusChange ==
    /\ statusModal # <<>>
    /\ statusModal' = <<>>
    /\ UNCHANGED <<stTasks, stProjects, ctxTasks, currentUser, lastTaskOp, steps, now>>
    /\ FlowFrame

\* UserTaskList.handleMarkDone in the task dialog of project p, on row k
handleMarkDone(p, k) ==
    /\ statusModal = <<>>
    /\ steps < MaxSteps
    /\ UserTaskVisible(stProjects[p], ctxTasks[k])
    /\ ~ctxTasks[k].isCompleted
    /\ LET taskId == ctxTasks[k].id
           found == IndexOfId(stTasks, taskId) # 0
       IN /\ stTasks' = markCompleted(stTasks, taskId, currentUser.id, now)
          /\ ctxTasks' = IF found THEN stTasks' ELSE ctxTasks
          /\ lastTaskOp' = [op |-> "markCompleted", taskId |-> taskId]
    /\ steps' = steps + 1
    /\ now' = now + 1
    /\ UNCHANGED <<stProjects, currentUser, statusModal>>
    /\ FlowFrame

\* UserTaskList.handleUndo in the task dialog of project p, on row k
handleUndo(p, k) ==
    /\ statusModal = <<>>
    /\ steps < MaxSteps
    /\ UserTaskVisible(stProjects[p], ctxTasks[k])
    /\ ctxTasks[k].isCompleted
    /\ LET taskId == ctxTasks[k].id
           found == IndexOfId(stTasks, taskId) # 0
       IN /\ stTasks' = markIncomplete(stTasks, taskId)
          /\ ctxTasks' = IF found THEN stTasks' ELSE ctxTasks
          /\ lastTaskOp' = [op |-> "markIncomplete", taskId |-> taskId]
    /\ steps' = steps + 1
    /\ now' = now + 1
    /\ UNCHANGED <<stProjects, currentUser, statusModal>>
    /\ FlowFrame

\* TaskManagement (administrators only), TaskForm submitted for a new task:
\* onSave calls the context's addTask
addTask(transitionId, assignedUserId) ==
    /\ statusModal = <<>>
    /\ steps < MaxSteps
    /\ isAdmin
    /\ ctxTasks' = Append(ctxTasks,
           [id |-> <<now>>, transitionId |-> transitionId,
            assignedUserId |-> assignedUserId, isRequired |-> TRUE,
            isCompleted |-> FALSE, completedAt |-> <<>>, completedBy |-> <<>>])
    /\ steps' = steps + 1
    /\ now' = now + 1
    /\ UNCHANGED <<stTasks, stProjects, currentUser, statusModal, lastTaskOp>>
    /\ FlowFrame

NextFlow ==
    \/ \E role \in Roles : setUserRole(role)
    \/ \E p \in 1..Len(stProjects) : handleStatusModal(p)
    \/ ConfirmStatusChange
    \/ CancelStatusChange
    \/ \E p \in 1..Len(stProjects), k \in 1..Len(ctxTasks) : handleMarkDone(p, k)
    \/ \E p \in 1..Len(stProjects), k \in 1..Len(ctxTasks) : handleUndo(p, k)
    \/ \E t \in ctxTransitionIds, u \in UserIds : addTask(t, u)

SpecFlow == InitFlow /\ [][NextFlow]_vars

\* C2: every change of a project's currentStatusId made by the status-change
\* flow goes from the status the project had to the target of a transition
\* that getValidNextTransitions returns for that status (a member of the
\* workflow's statuses) and that canUserTransition allows to the acting user.
C2_StatusChangeFollowsAllowedOption ==
    [][\A p \in 1..Len(stProjects) :
          stProjects'[p].currentStatusId # stProjects[p].currentStatusId =>
              LET before == stProjects[p]
                  workflow == getWorkflowForProject(before)
                  options == getValidNextTransitions(workflow,
                                 before.currentStatusId, createMockStatuses, stTasks)
              IN \E o \in 1..Len(options) :
                    /\ options[o].transition.fromStatusId = before.currentStatusId
                    /\ options[o].transition.toStatusId = stProjects'[p].currentStatusId
                    /\ Includes(workflow.statuses, options[o].transition.toStatusId)
                    /\ canUserTransition(currentUser, options[o].transition,
                                         options[o].blockedByTasks).allowed]_vars

\* project-2 has been moved from status-1 to status-2 through the dialog
C2_Witness ==
    /\ stProjects # <<>>
    /\ stProjects[2].currentStatusId = 2
    /\ Len(stProjects[2].statusHistory) = 2
    /\ stProjects[2].statusHistory[2] = HistoryEntry(<<1>>, 2, currentUser.id)

\* task i of the store is the only task that gates its transition
SoleGate(store, i) ==
    /\ store[i].isRequired
    /\ \A j \in 1..Len(store) : j # i => store[j].transitionId # store[i].transitionId

\* the options the resolver returns now for the transition with this id, over
\* the workflows the dialog uses
OptionsOfWorkflowFor(workflow, transitionId) ==
    UNION {LET options == getValidNextTransitions(workflow,
                              workflow.transitions[t].fromStatusId,
                              createMockStatuses, stTasks)
           IN {options[o] : o \in {n \in 1..Len(options) :
                                      options[n].transition.id = transitionId}} :
           t \in {n \in 1..Len(workflow.transitions) :
                    workflow.transitions[n].id = transitionId}}

OptionsNowFor(transitionId) ==
    UNION {OptionsOfWorkflowFor(ctxWorkflows[w], transitionId) :
           w \in 1..Len(ctxWorkflows)}

TaskIdsOf(tasks) == {tasks[i].id : i \in 1..Len(tasks)}

\* C9: when K is the single required task gating T, the resolver call that
\* follows markCompleted(K) returns T's option unblocked and without K, and
\* the one that follows markIncomplete(K) returns it blocked and with K.
C9_CompleteUnblocksIncompleteBlocks ==
    \A i \in 1..Len(stTasks) :
        (lastTaskOp.taskId = stTasks[i].id /\ SoleGate(stTasks, i)) =>
            LET options == OptionsNowFor(stTasks[i].transitionId)
            IN /\ options # {}
               /\ lastTaskOp.op = "markCompleted" =>
                    \A o \in options :
                        /\ ~o.blockedByTasks
                        /\ stTasks[i].id \notin TaskIdsOf(o.incompleteTasks)
               /\ lastTaskOp.op = "markIncomplete" =>
                    \A o \in options :
                        /\ o.blockedByTasks
                        /\ stTasks[i].id \in TaskIdsOf(o.incompleteTasks)

\* task-1, the only gate of trans-1, was completed and then marked incomplete
C9_Witness ==
    /\ lastTaskOp = [op |-> "markIncomplete", taskId |-> <<0, 1>>]
    /\ steps = 2
    /\ \E o \in OptionsNowFor(<<0, 1>>) : o.blockedByTasks

\* C10: a required, not completed task that the Task Management page added
\* for transition T makes every resolver result that contains T report it
\* as blocked by tasks.
C10_AddedRequiredTaskBlocks ==
    \A i \in 1..Len(ctxTasks) :
        (/\ Len(ctxTasks[i].id) = 1
         /\ ctxTasks[i].isRequired
         /\ ~ctxTasks[i].isCompleted) =>
            \A o \in OptionsNowFor(ctxTasks[i].transitionId) : o.blockedByTasks

(***************************************************************************)
(* data/dataAccess.ts : workflowOperations                                 *)
(***************************************************************************)
\* workflowOperations.update: the store after the call (unchanged when the
\* id is not found and the call returns null)
workflowOperationsUpdate(workflows, id, updates) ==
    LET index == IndexOfId(workflows, id)
    IN IF index = 0 THEN workflows
       ELSE LET setsDefault == "isDefault" \in DOMAIN updates /\ updates.isDefault
                entityType == IF "entityType" \in DOMAIN updates
                              THEN updates.entityType
                              ELSE workflows[index].entityType
                cleared ==
                    [i \in 1..Len(workflows) |->
                        IF /\ setsDefault
                           /\ workflows[i].entityType = entityType
                           /\ workflows[i].isDefault
                           /\ workflows[i].id # id
                        THEN [workflows[i] EXCEPT !.isDefault = FALSE]
                        ELSE workflows[i]]
            IN [cleared EXCEPT ![index] = Merge(cleared[index], updates)]

\* workflowOperations.create at time at: the store after the call
workflowOperationsCreate(workflows, workflow, at) ==
    LET cleared ==
            [i \in 1..Len(workflows) |->
                IF /\ workflow.isDefault
                   /\ workflows[i].entityType = workflow.entityType
                   /\ workflows[i].isDefault
                THEN [workflows[i] EXCEPT !.isDefault = FALSE]
                ELSE workflows[i]]
        newWorkflow == [id |-> <<at>>, entityType |-> workflow.entityType,
                        isDefault |-> workflow.isDefault,
                        statuses |-> workflow.statuses,
                        transitions |-> workflow.transitions]
    IN Append(cleared, newWorkflow)

(***************************************************************************)
(* The workflow management page: WorkflowForm, TransitionList and          *)
(* TransitionForm over the seeded workflow store.                          *)
(***************************************************************************)
\* '' in a status select
NoStatus == 0

\* WorkflowForm.handleSubmit: the linear flow over the selected statuses
LinearTransitions(statuses, at) ==
    [i \in 1..(Len(statuses) - 1) |->
        [id |-> <<at, i - 1>>, fromStatusId |-> statuses[i],
         toStatusId |-> statuses[i + 1], requiresApproval |-> FALSE,
         approverRoles |-> {}, approverUserIds |-> {}]]

\* WorkflowForm.handleStatusToggle
ToggleStatus(statuses, statusId) ==
    IF Includes(statuses, statusId)
    THEN LET keep(id) == id # statusId IN SelectSeq(statuses, keep)
    ELSE Append(statuses, statusId)

\* TransitionForm.workflowStatuses: allStatuses.filter(s => set.has(s.id))
workflowStatuses(workflow) ==
    LET keep(id) == Includes(workflow.statuses, id)
    IN SelectSeq(createMockStatuses, keep)

\* TransitionForm: the initial field values, after the effect that fills an
\* empty From and To with the first two statuses of the workflow
TransitionFormFields(mode, workflow, initial) ==
    LET options == workflowStatuses(workflow)
        from == IF initial = <<>> THEN NoStatus ELSE initial[1].fromStatusId
        to == IF initial = <<>> THEN NoStatus ELSE initial[1].toStatusId
    IN [mode |-> mode,
        initialId |-> IF initial = <<>> THEN <<>> ELSE <<initial[1].id>>,
        fromStatusId |-> IF from = NoStatus /\ Len(options) > 0 THEN options[1] ELSE from,
        toStatusId |-> IF to = NoStatus /\ Len(options) > 1 THEN options[2] ELSE to,
        requiresApproval |-> IF initial = <<>> THEN FALSE ELSE initial[1].requiresApproval,
        approverRoles |-> IF initial = <<>> THEN {} ELSE initial[1].approverRoles,
        approverUserIds |-> IF initial = <<>> THEN {} ELSE initial[1].approverUserIds]

\* TransitionForm.validate
TransitionFormValid(form) ==
    /\ form.fromStatusId # NoStatus
    /\ form.toStatusId # NoStatus
    /\ form.fromStatusId # form.toStatusId
    /\ ~(form.requiresApproval /\ form.approverRoles = {} /\ form.approverUserIds = {})

\* toggleInArray on a set
ToggleIn(set, value) == IF value \in set THEN set \ {value} ELSE set \cup {value}

InitEdit ==
    /\ PermIdle
    /\ StatusIdle
    /\ TaskCallsIdle
    /\ ConfirmsIdle
    /\ ResolveIdle
    /\ ValidateIdle
    /\ FlowIdle
    /\ stTasks = <<>>
    /\ stWorkflows = createMockWorkflows
    /\ wfForm = <<>>
    /\ tlWorkflow = NoWorkflow
    /\ tlForm = <<>>
    /\ errorMessages = <<>>
    /\ steps = 0
    /\ now = 1

EditFrame == UNCHANGED <<statusVars, taskVars, raceVars, permVars, resolveVars, validateVars, flowVars, stTasks>>

PageIdle == wfForm = <<>> /\ tlWorkflow = NoWorkflow

\* one more field change or store write
Step == steps' = steps + 1 /\ now' = now + 1

\* WorkflowManagement.handleCreateWorkflow: the form opens empty
handleCreateWorkflow ==
    /\ PageIdle
    /\ wfForm' = <<[editing |-> <<>>, entityType |-> "project",
                    statuses |-> <<>>, isDefault |-> FALSE]>>
    /\ UNCHANGED <<stWorkflows, tlWorkflow, tlForm, errorMessages, steps, now>>
    /\ EditFrame

\* WorkflowManagement.handleEditWorkflow: the form opens on a listed workflow
handleEditWorkflow(w) ==
    /\ PageIdle
    /\ wfForm' = <<[editing |-> <<stWorkflows[w].id>>,
                    entityType |-> stWorkflows[w].entityType,
                    statuses |-> stWorkflows[w].statuses,
                    isDefault |-> stWorkflows[w].isDefault]>>
    /\ UNCHANGED <<stWorkflows, tlWorkflow, tlForm, errorMessages, steps, now>>
    /\ EditFrame

\* WorkflowForm.handleStatusToggle on a status checkbox
handleStatusToggle(statusId) ==
    /\ wfForm # <<>>
    /\ steps < MaxEdits
    /\ wfForm' = <<[wfForm[1] EXCEPT !.statuses = ToggleStatus(@, statusId)]>>
    /\ Step
    /\ UNCHANGED <<stWorkflows, tlWorkflow, tlForm, errorMessages>>
    /\ EditFrame

\* WorkflowForm.handleSubmit (validateForm passes), then
\* WorkflowManagement.handleSaveWorkflow
handleSaveWorkflow ==
    /\ wfForm # <<>>
    /\ steps < MaxEdits
    /\ Len(wfForm[1].statuses) >= 2
    /\ LET formData == wfForm[1]
           workflowData == [entityType |-> formData.entityType,
                            statuses |-> formData.statuses,
                            isDefault |-> formData.isDefault,
                            transitions |-> LinearTransitions(formData.statuses, now)]
       IN IF formData.editing # <<>>
          THEN /\ IndexOfId(stWorkflows, formData.editing[1]) # 0
               /\ stWorkflows' = workflowOperationsUpdate(stWorkflows,
                                     formData.editing[1], workflowData)
          ELSE stWorkflows' = workflowOperationsCreate(stWorkflows, workflowData, now)
    /\ wfForm' = <<>>
    /\ Step
    /\ UNCHANGED <<tlWorkflow, tlForm, errorMessages>>
    /\ EditFrame

\* WorkflowManagement.handleCancelForm
handleCancelForm ==
    /\ wfForm # <<>>
    /\ wfForm' = <<>>
    /\ UNCHANGED <<stWorkflows, tlWorkflow, tlForm, errorMessages, steps, now>>
    /\ EditFrame

\* 'Manage Transitions': TransitionList mounts on the latest stored workflow
ManageTransitions(w) ==
    /\ PageIdle
    /\ tlWorkflow' = stWorkflows[w]
    /\ tlForm' = <<>>
    /\ errorMessages' = <<>>
    /\ UNCHANGED <<stWorkflows, wfForm, steps, now>>
    /\ EditFrame

\* TransitionList.onClose
CloseTransitions ==
    /\ tlWorkflow # NoWorkflow
    /\ tlForm = <<>>
    /\ tlWorkflow' = NoWorkflow
    /\ errorMessages' = <<>>
    /\ UNCHANGED <<stWorkflows, wfForm, tlForm, steps, now>>
    /\ EditFrame

\* the store and the list's currentWorkflow after a successful update
PersistTransitions(next) ==
    /\ stWorkflows' = workflowOperationsUpdate(stWorkflows, tlWorkflow.id,
                                               [transitions |-> next])
    /\ tlWorkflow' = stWorkflows'[IndexOfId(stWorkflows, tlWorkflow.id)]

\* TransitionList.handleDelete on row k
handleDelete(k) ==
    /\ tlWorkflow # NoWorkflow
    /\ tlForm = <<>>
    /\ steps < MaxEdits
    /\ k \in 1..Len(tlWorkflow.transitions)
    /\ IndexOfId(stWorkflows, tlWorkflow.id) # 0
    /\ LET keep(t) == t.id # tlWorkflow.transitions[k].id
       IN PersistTransitions(SelectSeq(tlWorkflow.transitions, keep))
    /\ Step
    /\ UNCHANGED <<wfForm, tlForm, errorMessages>>
    /\ EditFrame

\* TransitionList: 'Add Transition'
OpenCreateTransition ==
    /\ tlWorkflow # NoWorkflow
    /\ tlForm = <<>>
    /\ tlForm' = <<TransitionFormFields("create", tlWorkflow, <<>>)>>
    /\ UNCHANGED <<stWorkflows, wfForm, tlWorkflow, errorMessages, steps, now>>
    /\ EditFrame

\* TransitionList: 'Edit' on row k
OpenEditTransition(k) ==
    /\ tlWorkflow # NoWorkflow
    /\ tlForm = <<>>
    /\ k \in 1..Len(tlWorkflow.transitions)
    /\ tlForm' = <<TransitionFormFields("edit", tlWorkflow, <<tlWorkflow.transitions[k]>>)>>
    /\ UNCHANGED <<stWorkflows, wfForm, tlWorkflow, errorMessages, steps, now>>
    /\ EditFrame

\* TransitionForm: a field of the form changes
ChangeField(fields) ==
    /\ tlForm # <<>>
    /\ steps < MaxEdits
    /\ fields # tlForm[1]
    /\ tlForm' = <<fields>>
    /\ Step
    /\ UNCHANGED <<stWorkflows, wfForm, tlWorkflow, errorMessages>>
    /\ EditFrame

setFromStatusId(statusId) ==
    /\ tlForm # <<>>
    /\ Includes(workflowStatuses(tlWorkflow), statusId)
    /\ ChangeField([tlForm[1] EXCEPT !.fromStatusId = statusId])

setToStatusId(statusId) ==
    /\ tlForm # <<>>
    /\ Includes(workflowStatuses(tlWorkflow), statusId)
    /\ ChangeField([tlForm[1] EXCEPT !.toStatusId = statusId])

setRequiresApproval ==
    /\ tlForm # <<>>
    /\ ChangeField([tlForm[1] EXCEPT !.requiresApproval = ~@])

\* the approver boxes are rendered only when approval is required
setApproverRoles(role) ==
    /\ tlForm # <<>>
    /\ tlForm[1].requiresApproval
    /\ ChangeField([tlForm[1] EXCEPT !.approverRoles = ToggleIn(@, role)])

setApproverUserIds(userId) ==
    /\ tlForm # <<>>
    /\ tlForm[1].requiresApproval
    /\ ChangeField([tlForm[1] EXCEPT !.approverUserIds = ToggleIn(@, userId)])

\* TransitionForm: Cancel
CancelTransitionForm ==
    /\ tlForm # <<>>
    /\ tlForm' = <<>>
    /\ UNCHANGED <<stWorkflows, wfForm, tlWorkflow, errorMessages, steps, now>>
    /\ EditFrame

\* variant of handleCreate that does not look at the validation result
handleCreate_PersistsInvalid ==
    /\ tlForm # <<>>
    /\ tlForm[1].mode = "create"
    /\ TransitionFormValid(tlForm[1])
    /\ steps < MaxEdits
    /\ IndexOfId(stWorkflows, tlWorkflow.id) # 0
    /\ PersistTransitions(Append(tlWorkflow.transitions,
                                 FormTransition(<<now>>, tlForm[1])))
    /\ tlForm' = <<>>
    /\ errorMessages' = <<>>
    /\ Step
    /\ UNCHANGED wfForm
    /\ EditFrame

\* TransitionForm.handleSubmit in create mode, then TransitionList.handleCreate
handleCreate ==
    /\ tlForm # <<>>
    /\ tlForm[1].mode = "create"
    /\ TransitionFormValid(tlForm[1])
    /\ LET t == FormTransition(<<now>>, tlForm[1])
           next == Append(tlWorkflow.transitions, t)
           validation == validateTransitionAgainstWorkflow(tlWorkflow, next, t, <<>>)
       IN IF ~validation.valid
          THEN /\ errorMessages' = validation.errors
               /\ UNCHANGED <<stWorkflows, tlWorkflow, tlForm, steps, now>>
          ELSE /\ steps < MaxEdits
               /\ IndexOfId(stWorkflows, tlWorkflow.id) # 0
               /\ PersistTransitions(next)
               /\ tlForm' = <<>>
               /\ errorMessages' = <<>>
               /\ Step
    /\ UNCHANGED wfForm
    /\ EditFrame

\* TransitionForm.handleSubmit in edit mode, then TransitionList.handleEdit
handleEdit ==
    /\ tlForm # <<>>
    /\ tlForm[1].mode = "edit"
    /\ TransitionFormValid(tlForm[1])
    /\ LET t == FormTransition(tlForm[1].initialId[1], tlForm[1])
           next == ReplaceById(tlWorkflow.transitions, t)
           validation == validateTransitionAgainstWorkflow(tlWorkflow, next, t, <<t.id>>)
       IN IF ~validation.valid
          THEN /\ errorMessages' = validation.errors
               /\ UNCHANGED <<stWorkflows, tlWorkflow, tlForm, steps, now>>
          ELSE /\ steps < MaxEdits
               /\ IndexOfId(stWorkflows, tlWorkflow.id) # 0
               /\ PersistTransitions(next)
               /\ tlForm' = <<>>
               /\ errorMessages' = <<>>
               /\ Step
    /\ UNCHANGED wfForm
    /\ EditFrame

NextEdit ==
    \/ handleCreateWorkflow
    \/ \E w \in 1..Len(stWorkflows) : handleEditWorkflow(w)
    \/ \E statusId \in SeqToSet(createMockStatuses) : handleStatusToggle(statusId)
    \/ handleSaveWorkflow
    \/ handleCancelForm
    \/ \E w \in 1..Len(stWorkflows) : ManageTransitions(w)
    \/ CloseTransitions
    \/ \E k \in 1..Len(createMockStatuses) : handleDelete(k)
    \/ OpenCreateTransition
    \/ \E k \in 1..Len(createMockStatuses) : OpenEditTransition(k)
    \/ \E statusId \in SeqToSet(createMockStatuses) : setFromStatusId(statusId)
    \/ \E statusId \in SeqToSet(createMockStatuses) : setToStatusId(statusId)
    \/ setRequiresApproval
    \/ \E role \in Roles : setApproverRoles(role)
    \/ \E userId \in UserIds : setApproverUserIds(userId)
    \/ CancelTransitionForm
    \/ handleCreate
    \/ handleEdit

SpecEdit == InitEdit /\ [][NextEdit]_vars

\* C8: the transition graph of every stored workflow is acyclic in every
\* state reached from the seeded store by workflow-form saves and by adds,
\* edits and deletes in the transition list.
C8_StoredWorkflowsAcyclic ==
    \A w \in 1..Len(stWorkflows) :
        ~HasDirectedCycle(EdgesOf(stWorkflows[w].transitions))

\* an edit of a seeded transition has been persisted with a new endpoint
C8_Witness ==
    /\ stWorkflows # <<>>
    /\ \E k \in 1..Len(stWorkflows[1].transitions) :
          /\ stWorkflows[1].transitions[k].id = <<0, 3>>
          /\ stWorkflows[1].transitions[k].toStatusId = 5
    /\ \E k \in 1..Len(stWorkflows[1].transitions) :
          stWorkflows[1].transitions[k].id = <<0, 4>>

\* C14: in every state reached from the seeded store by workflow-form saves
\* and by adds, edits and deletes in the transition list, every stored
\* workflow with more than one status has a start status and an end status.
C14_StoredWorkflowsHaveStartAndEnd ==
    \A w \in 1..Len(stWorkflows) :
        Len(stWorkflows[w].statuses) > 1 =>
            /\ HasStartStatus(stWorkflows[w].statuses, stWorkflows[w].transitions)
            /\ HasEndStatus(stWorkflows[w].statuses, stWorkflows[w].transitions)

\* the validation that a click on the open transition form's submit makes
PendingValidation ==
    IF tlForm[1].mode = "create"
    THEN LET t == FormTransition(<<now>>, tlForm[1])
         IN validateTransitionAgainstWorkflow(tlWorkflow,
                Append(tlWorkflow.transitions, t), t, <<>>)
    ELSE LET t == FormTransition(tlForm[1].initialId[1], tlForm[1])
         IN validateTransitionAgainstWorkflow(tlWorkflow,
                ReplaceById(tlWorkflow.transitions, t), t, <<t.id>>)

\* C29: while the transition form holds a transition that the validator
\* rejects, no step of the add or edit flow changes the stored workflows.
C29_RejectedAttemptLeavesStore ==
    [][(/\ tlForm # <<>>
        /\ TransitionFormValid(tlForm[1])
        /\ ~PendingValidation.valid)
          => stWorkflows' = stWorkflows]_vars

\* an add was attempted and rejected: the messages are shown, the form is
\* still open and the store is the seeded one
C29_Witness ==
    /\ tlForm # <<>>
    /\ tlForm[1].mode = "create"
    /\ TransitionFormValid(tlForm[1])
    /\ errorMessages # <<>>
    /\ errorMessages = PendingValidation.errors
    /\ stWorkflows = createMockWorkflows

\* C27: a workflow-form save of an existing workflow whose status list was
\* not changed leaves the workflow's transitions (ids, endpoints, approval
\* settings) as they were.
C27_SaveKeepsTransitions ==
    [][\A w \in 1..Len(stWorkflows) :
          (/\ wfForm # <<>>
           /\ wfForm' = <<>>
           /\ steps' # steps
           /\ wfForm[1].editing = <<stWorkflows[w].id>>
           /\ wfForm[1].statuses = stWorkflows[w].statuses)
              => stWorkflows'[w].transitions = stWorkflows[w].transitions]_vars

\* a transition that requires approval and names no approver
ApproverLess(t) ==
    t.requiresApproval /\ t.approverRoles = {} /\ t.approverUserIds = {}

\* C18: a candidate that requires approval and names no approver role and no
\* approver user is always rejected by the validator, so the transition that
\* an accepted add or edit persists names an approver when it requires
\* approval; the transitions the workflow form generates require none.
C18_ApprovalNeedsApprover ==
    /\ Validated =>
          /\ ApproverLess(vCandidate) =>
                ~vResult.valid /\ Reported(ErrApprover)
          /\ vResult.valid =>
                \A i \in 1..Len(vNext) :
                    vNext[i].id = vCandidate.id => ~ApproverLess(vNext[i])
    /\ \A k \in 0..NStatus :
          \A i \in 1..(k - 1) :
              ~ApproverLess(LinearTransitions(Prefix(k), now)[i])

\* a candidate whose only defect is the missing approver is rejected
C18_Witness ==
    /\ Validated
    /\ ApproverLess(vCandidate)
    /\ vResult.errors = <<ErrApprover>>
    /\ ~vResult.valid

\* C19: the validator returns valid = false for every candidate whose
\* fromStatusId equals its toStatusId, so the transition that an accepted
\* add or edit persists is never a self-loop.
C19_SelfLoopNeverValid ==
    Validated =>
        /\ vCandidate.fromStatusId = vCandidate.toStatusId => ~vResult.valid
        /\ vResult.valid =>
              \A i \in 1..Len(vNext) :
                  vNext[i].id = vCandidate.id =>
                      vNext[i].fromStatusId # vNext[i].toStatusId

\* a self-loop candidate that no other check rejects is reported as a cycle
C19_Witness ==
    /\ Validated
    /\ vCandidate.fromStatusId = vCandidate.toStatusId
    /\ vResult.errors = <<ErrCycle>>
    /\ ~vResult.valid

(***************************************************************************)
(* The two pages in one session: the workflow management page edits the    *)
(* stored workflows, the project list opens the Change Status dialog.      *)
(* A page is left only when its dialogs are closed.                        *)
(***************************************************************************)
InitApp ==
    /\ PermIdle
    /\ StatusIdle
    /\ TaskCallsIdle
    /\ ConfirmsIdle
    /\ ResolveIdle
    /\ ValidateIdle
    /\ stTasks = createMockTasks
    /\ stProjects = createMockProjects
    /\ ctxTasks = createMockTasks
    /\ currentUser = createMockUsers[1]
    /\ statusModal = <<>>
    /\ lastTaskOp = NoTaskOp
    /\ stWorkflows = createMockWorkflows
    /\ wfForm = <<>>
    /\ tlWorkflow = NoWorkflow
    /\ tlForm = <<>>
    /\ errorMessages = <<>>
    /\ steps = 0
    /\ now = 1

\* the workflow management page, while no Change Status dialog is open
EditOnPage == statusModal = <<>> /\ NextEdit

\* the Change Status dialog of the project list, while the workflow
\* management page shows no dialog
DialogOnPage ==
    /\ PageIdle
    /\ \/ \E p \in 1..Len(stProjects) : handleStatusModal(p)
       \/ ConfirmStatusChange
       \/ CancelStatusChange

NextApp == EditOnPage \/ DialogOnPage

SpecApp == InitApp /\ [][NextApp]_vars

\* workflowOperations.getById on the store: the stored definition of a
\* project's workflow
StoredWorkflowOf(project) ==
    LET index == IndexOfId(stWorkflows, project.workflowId)
    IN IF index = 0 THEN NoWorkflow ELSE stWorkflows[index]

\* C11: the options of an open Change Status dialog are the resolver's
\* result over the stored definition of the project's workflow, also after
\* that workflow's transitions were added, edited or deleted or the
\* workflow was saved again.
C11_DialogOffersStoredWorkflow ==
    statusModal # <<>> =>
        statusModal[1].options =
            getValidNextTransitions(StoredWorkflowOf(statusModal[1].project),
                statusModal[1].project.currentStatusId, createMockStatuses, stTasks)

\* C21: in every state reached through status changes and workflow-form
\* saves (which may remove statuses from a workflow), each project's
\* currentStatusId is in the statuses list of the stored workflow its
\* workflowId names.
C21_CurrentStatusInWorkflow ==
    \A p \in 1..Len(stProjects) :
        /\ StoredWorkflowOf(stProjects[p]) # NoWorkflow
        /\ Includes(StoredWorkflowOf(stProjects[p]).statuses,
                    stProjects[p].currentStatusId)

(***************************************************************************)
(* data/dataAccess.ts : workflowOperations called directly on the seeded   *)
(* workflow store, with every update a Partial<Workflow> can carry for     *)
(* entityType and isDefault.                                               *)
(***************************************************************************)
EntityTypes == {"project", "campaign"}

\* workflowOperations.delete: the store after the call
workflowOperationsDelete(workflows, id) ==
    LET keep(workflow) == workflow.id # id
    IN SelectSeq(workflows, keep)

\* the updates of entityType and isDefault: either field, or both
DefaultUpdates ==
    {[isDefault |-> d] : d \in BOOLEAN}
        \cup {[entityType |-> e] : e \in EntityTypes}
        \cup {[isDefault |-> d, entityType |-> e] : d \in BOOLEAN, e \in EntityTypes}

InitDefault ==
    /\ PermIdle
    /\ StatusIdle
    /\ TaskCallsIdle
    /\ ConfirmsIdle
    /\ ResolveIdle
    /\ ValidateIdle
    /\ FlowIdle
    /\ stTasks = <<>>
    /\ stWorkflows = createMockWorkflows
    /\ wfForm = <<>>
    /\ tlWorkflow = NoWorkflow
    /\ tlForm = <<>>
    /\ errorMessages = <<>>
    /\ steps = 0
    /\ now = 1

DefaultFrame ==
    UNCHANGED <<statusVars, taskVars, raceVars, permVars, resolveVars, validateVars, flowVars, stTasks,
                wfForm, tlWorkflow, tlForm, errorMessages>>

CallWorkflowCreate(entityType, isDefault) ==
    /\ steps < MaxEdits
    /\ stWorkflows' = workflowOperationsCreate(stWorkflows,
           [entityType |-> entityType, isDefault |-> isDefault,
            statuses |-> <<>>, transitions |-> <<>>], now)
    /\ Step
    /\ DefaultFrame

CallWorkflowUpdate(w, updates) ==
    /\ steps < MaxEdits
    /\ w \in 1..Len(stWorkflows)
    /\ stWorkflows' = workflowOperationsUpdate(stWorkflows, stWorkflows[w].id, updates)
    /\ Step
    /\ DefaultFrame

CallWorkflowDelete(w) ==
    /\ steps < MaxEdits
    /\ w \in 1..Len(stWorkflows)
    /\ stWorkflows' = workflowOperationsDelete(stWorkflows, stWorkflows[w].id)
    /\ Step
    /\ DefaultFrame

NextDefault ==
    \/ \E e \in EntityTypes, d \in BOOLEAN : CallWorkflowCreate(e, d)
    \/ \E w \in 1..(Len(createMockWorkflows) + MaxEdits), u \in DefaultUpdates :
            CallWorkflowUpdate(w, u)
    \/ \E w \in 1..(Len(createMockWorkflows) + MaxEdits) : CallWorkflowDelete(w)

SpecDefault == InitDefault /\ [][NextDefault]_vars

\* C12: at most one stored workflow per entity type is the default, after
\* any sequence of workflowOperations.create, update and delete calls.
C12_OneDefaultPerEntityType ==
    \A e \in EntityTypes :
        Cardinality({w \in 1..Len(stWorkflows) :
                        stWorkflows[w].entityType = e /\ stWorkflows[w].isDefault}) <= 1

(***************************************************************************)
(* Specification SpecStatus: the status management page next to the        *)
(* workflow form.  The status store holds ids; a status made by the status *)
(* form has the form's default entity type 'project', so the workflow form *)
(* offers it.  Editing a status keeps its id and is left out.              *)
(***************************************************************************)
\* `status-${Date.now()}`: an id no seeded status has
NewStatusId(at) == Len(createMockStatuses) + at

\* statusOperations.create: the store after the call
statusOperationsCreate(statuses, at) == Append(statuses, NewStatusId(at))

\* statusOperations.delete: the store after the call
statusOperationsDelete(statuses, id) ==
    LET keep(x) == x # id IN SelectSeq(statuses, keep)

\* StatusManagement.handleDeleteClick: projectsUsingStatus
projectsUsingStatus(projects, id) ==
    {p \in 1..Len(projects) :
        \/ projects[p].currentStatusId = id
        \/ \E e \in 1..Len(projects[p].statusHistory) :
              \/ projects[p].statusHistory[e].toStatusId = id
              \/ projects[p].statusHistory[e].fromStatusId = <<id>>}

InitStatus ==
    /\ PermIdle
    /\ ResolveIdle
    /\ ValidateIdle
    /\ stTasks = <<>>
    /\ stStatuses = createMockStatuses
    /\ TaskCallsIdle
    /\ ConfirmsIdle
    /\ stProjects = createMockProjects
    /\ ctxTasks = <<>>
    /\ currentUser = [id |-> 1, role |-> "admin"]
    /\ statusModal = <<>>
    /\ lastTaskOp = NoTaskOp
    /\ stWorkflows = createMockWorkflows
    /\ wfForm = <<>>
    /\ tlWorkflow = NoWorkflow
    /\ tlForm = <<>>
    /\ errorMessages = <<>>
    /\ steps = 0
    /\ now = 1

StatusFrame ==
    UNCHANGED <<taskVars, raceVars, permVars, resolveVars, validateVars, flowVars, stTasks, editVars>>

\* StatusManagement.handleSaveStatus with no editingStatus
handleSaveStatus ==
    /\ PageIdle
    /\ steps < MaxEdits
    /\ stStatuses' = statusOperationsCreate(stStatuses, now)
    /\ Step
    /\ StatusFrame

\* StatusManagement.handleDeleteClick, the confirm prompt accepted
handleDeleteClick(id) ==
    /\ PageIdle
    /\ Includes(stStatuses, id)
    /\ IF projectsUsingStatus(stProjects, id) # {}
       THEN UNCHANGED stStatuses
       ELSE stStatuses' = statusOperationsDelete(stStatuses, id)
    /\ UNCHANGED clockVars
    /\ StatusFrame

NextStatus ==
    \/ handleSaveStatus
    \/ \E id \in SeqToSet(stStatuses) : handleDeleteClick(id)
    \/ handleCreateWorkflow
    \/ \E w \in 1..Len(stWorkflows) : handleEditWorkflow(w)
    \/ \E statusId \in SeqToSet(stStatuses) : handleStatusToggle(statusId)
    \/ handleSaveWorkflow
    \/ handleCancelForm

SpecStatus == InitStatus /\ [][NextStatus]_vars

\* the status id is in the statuses list or a transition endpoint of a stored
\* workflow, or the current status or a history entry of a stored project
StatusReferenced(id) ==
    \/ \E w \in 1..Len(stWorkflows) :
          \/ Includes(stWorkflows[w].statuses, id)
          \/ \E i \in 1..Len(stWorkflows[w].transitions) :
                \/ stWorkflows[w].transitions[i].fromStatusId = id
                \/ stWorkflows[w].transitions[i].toStatusId = id
    \/ \E p \in 1..Len(stProjects) :
          \/ stProjects[p].currentStatusId = id
          \/ \E e \in 1..Len(stProjects[p].statusHistory) :
                \/ stProjects[p].statusHistory[e].toStatusId = id
                \/ stProjects[p].statusHistory[e].fromStatusId = <<id>>

\* C20: no step removes from the status store a status that a stored
\* workflow or a stored project references.
C20_ReferencedStatusNeverDeleted ==
    [][\A id \in SeqToSet(stStatuses) \ SeqToSet(stStatuses') :
          ~StatusReferenced(id)]_vars

(***************************************************************************)
(* Specification SpecTasks: taskOperations.markCompleted and               *)
(* markIncomplete called in any order on the seeded task store, also with  *)
(* an id no task has.  taskCalls records the calls.                        *)
(***************************************************************************)
MaxCalls == 3

UnknownTaskId == <<0, 0>>
TaskIdsCalled == {stTasks[k].id : k \in 1..Len(stTasks)} \cup {UnknownTaskId}

TaskCall(op, taskId, userId, at) ==
    [op |-> op, taskId |-> taskId, userId |-> userId, at |-> at]

InitTasks ==
    /\ PermIdle
    /\ StatusIdle
    /\ ResolveIdle
    /\ ValidateIdle
    /\ AppIdle
    /\ stTasks = createMockTasks
    /\ taskCalls = <<>>
    /\ ConfirmsIdle

TasksFrame ==
    UNCHANGED <<statusVars, raceVars, permVars, resolveVars, validateVars, flowVars, editVars>>

CallMarkCompleted(id, completedByUserId) ==
    /\ Len(taskCalls) < MaxCalls
    /\ stTasks' = markCompleted(stTasks, id, completedByUserId, now)
    /\ taskCalls' = Append(taskCalls,
                           TaskCall("markCompleted", id, <<completedByUserId>>, now))
    /\ Step
    /\ TasksFrame

CallMarkIncomplete(id) ==
    /\ Len(taskCalls) < MaxCalls
    /\ stTasks' = markIncomplete(stTasks, id)
    /\ taskCalls' = Append(taskCalls, TaskCall("markIncomplete", id, <<>>, now))
    /\ Step
    /\ TasksFrame

NextTasks ==
    \/ \E id \in TaskIdsCalled, u \in UserIds : CallMarkCompleted(id, u)
    \/ \E id \in TaskIdsCalled : CallMarkIncomplete(id)

SpecTasks == InitTasks /\ [][NextTasks]_vars

\* the task of the store with the given id
StoredTask(id) == stTasks[IndexOfId(stTasks, id)]
LastTaskCall == taskCalls[Len(taskCalls)]

\* C22: after any sequence of markCompleted and markIncomplete calls on the
\* seeded store, a task is completed exactly when completedAt and
\* completedBy are both set, and the task of a markIncomplete call has
\* neither.
C22_CompletedIffStamped ==
    /\ \A k \in 1..Len(stTasks) :
          stTasks[k].isCompleted <=>
              (stTasks[k].completedAt # <<>> /\ stTasks[k].completedBy # <<>>)
    /\ (/\ taskCalls # <<>>
        /\ LastTaskCall.op = "markIncomplete"
        /\ IndexOfId(stTasks, LastTaskCall.taskId) # 0)
          => /\ StoredTask(LastTaskCall.taskId).completedAt = <<>>
             /\ StoredTask(LastTaskCall.taskId).completedBy = <<>>

\* the seeded completed task-3 was marked incomplete and lost its stamps
C22_Witness ==
    /\ taskCalls # <<>>
    /\ LastTaskCall.op = "markIncomplete"
    /\ LastTaskCall.taskId = <<0, 3>>
    /\ ~StoredTask(<<0, 3>>).isCompleted
    /\ StoredTask(<<0, 3>>).completedAt = <<>>

\* the last three calls are markCompleted, markIncomplete, markCompleted on
\* one stored task
RoundTrip ==
    /\ Len(taskCalls) >= 3
    /\ LET n == Len(taskCalls)
       IN /\ taskCalls[n - 2].op = "markCompleted"
          /\ taskCalls[n - 1].op = "markIncomplete"
          /\ taskCalls[n].op = "markCompleted"
          /\ taskCalls[n - 2].taskId = taskCalls[n].taskId
          /\ taskCalls[n - 1].taskId = taskCalls[n].taskId
          /\ IndexOfId(stTasks, taskCalls[n].taskId) # 0

\* C23: after markCompleted(K, u1), markIncomplete(K), markCompleted(K, u2)
\* the task K is completed, completedBy is u2 and completedAt is the time of
\* the second completion, later than the first.
C23_RoundTripFreshStamps ==
    RoundTrip =>
        LET n == Len(taskCalls)
            K == StoredTask(taskCalls[n].taskId)
        IN /\ K.isCompleted
           /\ K.completedBy = taskCalls[n].userId
           /\ K.completedAt = <<taskCalls[n].at>>
           /\ K.completedAt # <<taskCalls[n - 2].at>>

\* the round trip on task-1 with two different users
C23_Witness ==
    /\ RoundTrip
    /\ LastTaskCall.taskId = <<0, 1>>
    /\ taskCalls[Len(taskCalls) - 2].userId # LastTaskCall.userId
    /\ StoredTask(<<0, 1>>).isCompleted
    /\ StoredTask(<<0, 1>>).completedBy = LastTaskCall.userId

(***************************************************************************)
(* Specification SpecIds: the create operations of the four stores and the *)
(* workflow form's save of a new workflow, with a clock that advances      *)
(* between operations or not (Date.now() has millisecond resolution).      *)
(***************************************************************************)
MaxCreates == 3
MaxClock == 2

\* `project-${Date.now()}`: an id no seeded project has
NewProjectId(at) == Len(createMockProjects) + at

\* projectOperations.create: the store after the call
projectOperationsCreate(projects, project, at) ==
    Append(projects,
           [id |-> NewProjectId(at), workflowId |-> project.workflowId,
            currentStatusId |-> project.currentStatusId,
            statusHistory |->
                <<HistoryEntry(<<>>, project.currentStatusId, project.creator)>>])

\* taskOperations.create: the store after the call
taskOperationsCreate(store, task, at) ==
    Append(store,
           [id |-> <<at>>, transitionId |-> task.transitionId,
            assignedUserId |-> task.assignedUserId, isRequired |-> task.isRequired,
            isCompleted |-> FALSE, completedAt |-> <<>>, completedBy |-> <<>>])

InitIds ==
    /\ PermIdle
    /\ ResolveIdle
    /\ ValidateIdle
    /\ TaskCallsIdle
    /\ ConfirmsIdle
    /\ stTasks = createMockTasks
    /\ stStatuses = createMockStatuses
    /\ stProjects = createMockProjects
    /\ ctxTasks = <<>>
    /\ currentUser = [id |-> 1, role |-> "admin"]
    /\ statusModal = <<>>
    /\ lastTaskOp = NoTaskOp
    /\ stWorkflows = createMockWorkflows
    /\ wfForm = <<>>
    /\ tlWorkflow = NoWorkflow
    /\ tlForm = <<>>
    /\ errorMessages = <<>>
    /\ steps = 0
    /\ now = 1

IdsFrame ==
    UNCHANGED <<taskVars, raceVars, permVars, resolveVars, validateVars, ctxTasks, currentUser,
                statusModal, lastTaskOp, wfForm, tlWorkflow, tlForm, errorMessages>>

\* the clock reaches the next millisecond
TickIds ==
    /\ now < MaxClock
    /\ now' = now + 1
    /\ UNCHANGED <<steps, stStatuses, stTasks, stProjects, stWorkflows>>
    /\ IdsFrame

CallStatusCreate ==
    /\ steps < MaxCreates
    /\ stStatuses' = statusOperationsCreate(stStatuses, now)
    /\ steps' = steps + 1
    /\ UNCHANGED <<now, stTasks, stProjects, stWorkflows>>
    /\ IdsFrame

CallTaskCreate ==
    /\ steps < MaxCreates
    /\ stTasks' = taskOperationsCreate(stTasks,
                       [transitionId |-> <<0, 1>>, assignedUserId |-> 1,
                        isRequired |-> TRUE], now)
    /\ steps' = steps + 1
    /\ UNCHANGED <<now, stStatuses, stProjects, stWorkflows>>
    /\ IdsFrame

CallProjectCreate ==
    /\ steps < MaxCreates
    /\ stProjects' = projectOperationsCreate(stProjects,
                          [workflowId |-> <<0, 1>>, currentStatusId |-> 1,
                           creator |-> 1], now)
    /\ steps' = steps + 1
    /\ UNCHANGED <<now, stStatuses, stTasks, stWorkflows>>
    /\ IdsFrame

\* WorkflowForm.handleSubmit for a new workflow over two statuses, then
\* handleSaveWorkflow: workflowOperations.create
SaveNewWorkflow ==
    /\ steps < MaxCreates
    /\ \E a, b \in {1, 2} :
          /\ a # b
          /\ stWorkflows' = workflowOperationsCreate(stWorkflows,
                                [entityType |-> "project", isDefault |-> FALSE,
                                 statuses |-> <<a, b>>,
                                 transitions |-> LinearTransitions(<<a, b>>, now)],
                                now)
    /\ steps' = steps + 1
    /\ UNCHANGED <<now, stStatuses, stTasks, stProjects>>
    /\ IdsFrame

NextIds ==
    \/ TickIds
    \/ CallStatusCreate
    \/ CallTaskCreate
    \/ CallProjectCreate
    \/ SaveNewWorkflow

SpecIds == InitIds /\ [][NextIds]_vars

\* no two records of the list have the same id
DistinctIds(list) ==
    \A i, j \in 1..Len(list) : i # j => list[i].id # list[j].id
\* the positions <<workflow, transition>> of all stored transitions
AllTransitions ==
    UNION {{<<w, i>> : i \in 1..Len(stWorkflows[w].transitions)} :
              w \in 1..Len(stWorkflows)}

\* C24: no two statuses, no two projects, no two workflows, no two tasks and
\* no two transitions share an id after any sequence of creates and
\* workflow-form saves, also when several happen in one clock millisecond.
C24_IdsUnique ==
    /\ \A i, j \in 1..Len(stStatuses) : i # j => stStatuses[i] # stStatuses[j]
    /\ DistinctIds(stProjects)
    /\ DistinctIds(stWorkflows)
    /\ DistinctIds(stTasks)
    /\ \A x, y \in AllTransitions :
          x # y => stWorkflows[x[1]].transitions[x[2]].id
                       # stWorkflows[y[1]].transitions[y[2]].id

(***************************************************************************)
(* Specification SpecRace: the project list page of SpecFlow next to a     *)
(* second session on the same localStorage whose task dialog marks tasks   *)
(* incomplete (UserTaskList.handleUndo calls taskOperations.markIncomplete)*)
(* at any moment, also while this session's Change Status dialog is open.  *)
(***************************************************************************)
\* the other session's handleUndo on the stored task k: the store write
OtherSessionUndo(k) ==
    /\ k \in 1..Len(stTasks)
    /\ stTasks[k].isCompleted
    /\ stTasks' = markIncomplete(stTasks, stTasks[k].id)
    /\ UNCHANGED <<stProjects, ctxTasks, currentUser, statusModal, lastTaskOp, steps, now>>
    /\ FlowFrame

NextRace ==
    \/ NextFlow
    \/ \E k \in 1..Len(stTasks) : OtherSessionUndo(k)

SpecRace == InitFlow /\ [][NextRace]_vars

\* C25: at the step that writes a status change to a project, the task
\* store holds no required, not completed task of the executed transition,
\* whatever the other session did between the opening of the dialog and
\* the Confirm click.
C25_NoIncompleteRequiredTaskAtWrite ==
    [][stProjects' # stProjects =>
          /\ statusModal # <<>>
          /\ SelectedOption(statusModal[1]) # <<>>
          /\ RequiredIncompleteOf(stTasks,
                 SelectedOption(statusModal[1])[1].transition.id) = {}]_vars

(***************************************************************************)
(* Specification SpecHistory: two browser tabs on the same localStorage,   *)
(* both as the administrator.  Each tab opens the Change Status dialog and *)
(* runs onConfirm, which makes two projectOperations.update calls: the     *)
(* first returns the stored project (updated), the second writes           *)
(* updated.statusHistory with the new entry.  Each update call is one      *)
(* step; the calls of the two tabs interleave.  Tasks are marked done in   *)
(* the task dialog.                                                        *)
(***************************************************************************)
Tabs == {1, 2}
TabIdle == [pc |-> "idle"]

\* tasks marked done and Confirm clicks in one run (counted by steps)
MaxConfirms == 3

\* the history entry with its `hist-${Date.now()}` id and timestamp, which
\* tell apart two entries of the same change
StampedHistoryEntry(from, to, userId, at) ==
    [fromStatusId |-> from, toStatusId |-> to, userId |-> userId, timestamp |-> at]

InitHistory ==
    /\ PermIdle
    /\ StatusIdle
    /\ TaskCallsIdle
    /\ ResolveIdle
    /\ ValidateIdle
    /\ EditIdle
    /\ stTasks = createMockTasks
    /\ stProjects = createMockProjects
    /\ ctxTasks = createMockTasks
    /\ currentUser = createMockUsers[1]
    /\ statusModal = <<>>
    /\ lastTaskOp = NoTaskOp
    /\ steps = 0
    /\ now = 1
    /\ confirms = [tab \in Tabs |-> TabIdle]

HistoryFrame ==
    UNCHANGED <<statusVars, taskVars, permVars, resolveVars, validateVars, editVars,
                ctxTasks, currentUser, statusModal, lastTaskOp>>

\* UserTaskList.handleMarkDone: the store write
TabMarkDone(k) ==
    /\ steps < MaxConfirms
    /\ k \in 1..Len(stTasks)
    /\ ~stTasks[k].isCompleted
    /\ stTasks' = markCompleted(stTasks, stTasks[k].id, currentUser.id, now)
    /\ steps' = steps + 1
    /\ now' = now + 1
    /\ UNCHANGED <<stProjects, confirms>>
    /\ HistoryFrame

\* the tab opens the dialog on the project as its list shows it, and
\* Confirm is clicked on the first option, which the permission check allows
TabConfirmClick(tab, p) ==
    /\ confirms[tab].pc = "idle"
    /\ steps < MaxConfirms
    /\ LET project == stProjects[p]
           options == getValidNextTransitions(getWorkflowForProject(project),
                          project.currentStatusId, createMockStatuses, stTasks)
       IN /\ options # <<>>
          /\ ~options[1].blockedByTasks
          /\ ConfirmPermission(currentUser, options[1]).allowed
          /\ confirms' = [confirms EXCEPT ![tab] =
                 [pc |-> "confirmed", project |-> project,
                  transition |-> options[1].transition]]
    /\ Step
    /\ UNCHANGED <<stTasks, stProjects>>
    /\ HistoryFrame

\* onConfirm: projectOperations.update(project.id, {currentStatusId})
TabFirstUpdate(tab) ==
    /\ confirms[tab].pc = "confirmed"
    /\ LET c == confirms[tab]
           index == IndexOfId(stProjects, c.project.id)
       IN /\ index # 0
          /\ stProjects' = projectOperationsUpdate(stProjects, c.project.id,
                               [currentStatusId |-> c.transition.toStatusId])
          /\ confirms' = [confirms EXCEPT ![tab] =
                 [pc |-> "updated", project |-> c.project,
                  transition |-> c.transition, updated |-> stProjects'[index]]]
    /\ UNCHANGED <<stTasks, steps, now>>
    /\ HistoryFrame

\* onConfirm: projectOperations.update(project.id, {statusHistory: nextHistory})
TabSecondUpdate(tab) ==
    /\ confirms[tab].pc = "updated"
    /\ LET c == confirms[tab]
           historyEntry == StampedHistoryEntry(<<c.project.currentStatusId>>,
                               c.transition.toStatusId, currentUser.id, now)
           nextHistory == Append(c.updated.statusHistory, historyEntry)
       IN stProjects' = projectOperationsUpdate(stProjects, c.project.id,
                            [statusHistory |-> nextHistory])
    /\ confirms' = [confirms EXCEPT ![tab] = TabIdle]
    /\ now' = now + 1
    /\ UNCHANGED <<stTasks, steps>>
    /\ HistoryFrame

NextHistory ==
    \/ \E k \in 1..Len(stTasks) : TabMarkDone(k)
    \/ \E tab \in Tabs, p \in 1..Len(stProjects) : TabConfirmClick(tab, p)
    \/ \E tab \in Tabs : TabFirstUpdate(tab)
    \/ \E tab \in Tabs : TabSecondUpdate(tab)

SpecHistory == InitHistory /\ [][NextHistory]_vars

\* s is a prefix of t
IsPrefix(s, t) ==
    /\ Len(s) <= Len(t)
    /\ \A i \in 1..Len(s) : s[i] = t[i]

\* C26: every step leaves each stored project's previous statusHistory as a
\* prefix of its new statusHistory, also when the update calls of two
\* confirmations on the same project interleave.
C26_HistoryAppendOnly ==
    [][\A p \in 1..Len(stProjects) :
          IsPrefix(stProjects[p].statusHistory, stProjects'[p].statusHistory)]_vars

(***************************************************************************)
(* Specification SpecProject: the project list page of SpecFlow with the   *)
(* project form (ProjectList.handleSaveProject).  A new project starts in  *)
(* the first status of the chosen workflow; an edit keeps the project's    *)
(* currentStatusId and may change the workflow only while the history has  *)
(* at most one entry (canChangeWorkflow).                                  *)
(***************************************************************************)
\* handleSaveProject without projectToEdit
handleSaveProjectCreate(w) ==
    /\ statusModal = <<>>
    /\ steps < MaxSteps
    /\ Len(ctxWorkflows[w].statuses) > 0
    /\ stProjects' = projectOperationsCreate(stProjects,
                          [workflowId |-> ctxWorkflows[w].id,
                           currentStatusId |-> ctxWorkflows[w].statuses[1],
                           creator |-> currentUser.id], now)
    /\ Step
    /\ UNCHANGED <<stTasks, ctxTasks, currentUser, statusModal, lastTaskOp>>
    /\ FlowFrame

\* handleSaveProject with projectToEdit = project p
handleSaveProjectEdit(p, w) ==
    /\ statusModal = <<>>
    /\ steps < MaxSteps
    /\ \/ ctxWorkflows[w].id = stProjects[p].workflowId
       \/ Len(stProjects[p].statusHistory) <= 1
    /\ stProjects' = projectOperationsUpdate(stProjects, stProjects[p].id,
                          [workflowId |-> ctxWorkflows[w].id,
                           currentStatusId |-> stProjects[p].currentStatusId])
    /\ Step
    /\ UNCHANGED <<stTasks, ctxTasks, currentUser, statusModal, lastTaskOp>>
    /\ FlowFrame

NextProject ==
    \/ NextFlow
    \/ \E w \in 1..Len(ctxWorkflows) : handleSaveProjectCreate(w)
    \/ \E p \in 1..Len(stProjects), w \in 1..Len(ctxWorkflows) :
          handleSaveProjectEdit(p, w)

SpecProject == InitFlow /\ [][NextProject]_vars

====
